---- MODULE Spec2Model ----
(***************************************************************************)
(* Verification model of the chat turn of ChicagoHAI/ai-chatbot:           *)
(* POST /api/chat (src/app/(chat)/api/chat/route.ts), the stream           *)
(* transcoder inside it (backendStream.start), and the persistence calls   *)
(* around it (src/lib/db/queries.ts).                                      *)
(*                                                                         *)
(* The backend body is a sequence of wire tokens.  A token is a piece of   *)
(* text that holds no newline, or one newline; a chunk is a run of tokens, *)
(* so a chunk boundary can fall between the two newlines of a delimiter,   *)
(* between the prefix and the payload, and inside a payload.               *)
(***************************************************************************)
EXTENDS Integers, Sequences, FiniteSets, TLC

\* ------------------------------------------------------------------ bounds
MaxFrames == 3      \* menu items in one backend body, transcoder alone
MaxTurnFrames == 2  \* menu items in one backend body, whole turn
MaxChunk == 2       \* wire tokens in one chunk handed over by reader.read()
MaxBlocks == 2      \* items in one marked region, and the highest block number
MaxDigits == 23     \* digits in the number of a heading
MaxBatch == 2       \* hypotheses in one saveHypotheses call
MaxRequests == 2    \* feedback submissions and batch saves after one turn

\* ------------------------------------------------------------- wire tokens
Tok(c, v) == [c |-> c, v |-> v]
NL == Tok("nl", "\n")
SP == Tok("sp", " ")
PREFIX == Tok("prefix", "data: ")
DONE == Tok("word", "[DONE]")
LB == Tok("lbrace", "{")
RB == Tok("rbrace", "}")
TYPE(t) == Tok("type", t)            \* "type":"<t>"
ID(i) == Tok("id", i)                \* "id":"<i>"
DELTA(d) == Tok("delta", d)          \* "delta":"<d>"
NUMDELTA(n) == Tok("numdelta", n)    \* "delta":<n>
JUNK == Tok("word", "oops")          \* text that is no JSON

Undefined == [c |-> "undefined", v |-> ""]
JString(s) == [c |-> "string", v |-> s]
JNumber(n) == [c |-> "number", v |-> n]

\* --------------------------------------------------------- sequence helpers
Last(s) == s[Len(s)]
Front(s) == SubSeq(s, 1, Len(s) - 1)

\* The sequences lo..hi of ss joined; the range is halved so that long
\* sequences are joined at a small depth of evaluation.
RECURSIVE ConcatRange(_, _, _)
ConcatRange(ss, lo, hi) ==
    IF lo > hi THEN <<>>
    ELSE IF lo = hi THEN ss[lo]
    ELSE ConcatRange(ss, lo, (lo + hi) \div 2)
             \o ConcatRange(ss, (lo + hi) \div 2 + 1, hi)

Concat(ss) == ConcatRange(ss, 1, Len(ss))

IsWs(t) == t.c \in {"nl", "sp"}

\* ------------------------------------------------ String.prototype methods
\* buffer.split('\n\n'): the pieces between the delimiters, found left to
\* right from index i; `start` is where the current piece began, and the
\* last piece is what follows the last delimiter.
RECURSIVE SplitFrom(_, _, _, _)
SplitFrom(s, i, start, acc) ==
    IF i > Len(s) THEN Append(acc, SubSeq(s, start, Len(s)))
    ELSE IF i < Len(s) /\ s[i] = NL /\ s[i + 1] = NL
         THEN SplitFrom(s, i + 2, i + 2, Append(acc, SubSeq(s, start, i - 1)))
         ELSE SplitFrom(s, i + 1, start, acc)

Split(s) == SplitFrom(s, 1, 1, <<>>)

\* part.startsWith('data: ')
StartsWithData(part) == Len(part) >= 1 /\ part[1] = PREFIX

\* part.slice(6)
Slice6(part) == Tail(part)

RECURSIVE TrimStart(_)
TrimStart(s) == IF s # <<>> /\ IsWs(s[1]) THEN TrimStart(Tail(s)) ELSE s

RECURSIVE TrimEnd(_)
TrimEnd(s) == IF s # <<>> /\ IsWs(Last(s)) THEN TrimEnd(Front(s)) ELSE s

\* payload.trim()
Trim(s) == TrimEnd(TrimStart(s))

\* ---------------------------------------------------------- JSON.parse
\* An object is "{" members "}" with white space allowed around and between
\* the tokens; anything else throws.  A later member of the same key wins.
NoWs(s) == SelectSeq(s, LAMBDA t : ~IsWs(t))

IsMember(t) == t.c \in {"type", "id", "delta", "numdelta"}

ParsesAsJson(payload) ==
    LET p == NoWs(payload) IN
    /\ Len(p) >= 2
    /\ p[1] = LB
    /\ Last(p) = RB
    /\ \A i \in 2..(Len(p) - 1) : IsMember(p[i])

Member(p, keys) ==
    LET idx == {i \in 1..Len(p) : p[i].c \in keys} IN
    IF idx = {} THEN Undefined
    ELSE LET t == p[CHOOSE i \in idx : \A j \in idx : j <= i] IN
         IF t.c = "numdelta" THEN JNumber(t.v) ELSE JString(t.v)

JsonParse(payload) ==
    LET p == NoWs(payload) IN
    [type |-> Member(p, {"type"}),
     id |-> Member(p, {"id"}),
     delta |-> Member(p, {"delta", "numdelta"})]

\* ------------------------------------------------------------- UI events
\* The objects handed to controller.enqueue; a key the object does not
\* carry reads as Undefined.
Event(type, id, delta) == [type |-> type, id |-> id, delta |-> delta]

\* ------------------------------------------------------------ transcoder
\* The state the for-loop body works on: the events enqueued by this chunk
\* so far, textBlockStarted, and whether controller.close() was called
\* (the loop then returns).
LoopState(events, started, done) ==
    [events |-> events, started |-> started, done |-> done]

Enqueue(st, e) == [st EXCEPT !.events = Append(@, e)]

\* payload.trim() === '[DONE]'
IsDone(payload) == Trim(payload) = <<DONE>>

\* payload.trim().startsWith('{')
StartsWithBrace(payload) ==
    LET t == Trim(payload) IN Len(t) >= 1 /\ t[1] = LB

\* A [DONE] handler that does not close the open text block first.
OnDoneFinishOnly(st, blockId) ==
    [Enqueue(st, Event("finish", Undefined, Undefined)) EXCEPT !.done = TRUE]

OnDone(st, blockId) ==
    LET s1 == IF st.started
              THEN Enqueue(st, Event("text-end", JString(blockId), Undefined))
              ELSE st
        s2 == Enqueue(s1, Event("finish", Undefined, Undefined))
    IN [s2 EXCEPT !.done = TRUE]

\* A reasoning handler that merges the thinking channel into the answer.
OnReasoningAsText(json, st) ==
    IF json.type.v = "reasoning-delta"
    THEN Enqueue(st, Event("text-delta", json.id, json.delta))
    ELSE st

OnReasoning(json, st) ==
    IF json.type.v = "reasoning-delta"
    THEN Enqueue(st, Event(json.type.v, json.id, json.delta))
    ELSE Enqueue(st, Event(json.type.v, json.id, Undefined))

\* A text-start handler that opens a block whether or not one is open.
OnTextStartAlways(st, blockId) ==
    Enqueue([st EXCEPT !.started = TRUE],
            Event("text-start", JString(blockId), Undefined))

OnTextStart(st, blockId) ==
    IF ~st.started
    THEN Enqueue([st EXCEPT !.started = TRUE],
                 Event("text-start", JString(blockId), Undefined))
    ELSE st

\* A text-delta handler that keys the delta by the id of the backend frame.
OnTextDeltaBackendId(json, st, blockId) ==
    LET s1 == OnTextStart(st, blockId) IN
    IF json.delta.c = "string"
    THEN Enqueue(s1, Event("text-delta", json.id, json.delta))
    ELSE s1

\* A text-delta handler that only opens the block when it is closed, and
\* so loses the delta that opened it.
OnTextDeltaOpenOnly(json, st, blockId) ==
    IF ~st.started THEN OnTextStart(st, blockId)
    ELSE IF json.delta.c = "string"
    THEN Enqueue(st, Event("text-delta", JString(blockId), json.delta))
    ELSE st

OnTextDelta(json, st, blockId) ==
    LET s1 == OnTextStart(st, blockId) IN
    IF json.delta.c = "string"
    THEN Enqueue(s1, Event("text-delta", JString(blockId), json.delta))
    ELSE s1

\* A text-end handler that passes the frame on whether or not a block is
\* open.
OnTextEndAlways(st, blockId) ==
    [Enqueue(st, Event("text-end", JString(blockId), Undefined))
       EXCEPT !.started = FALSE]

OnTextEnd(st, blockId) ==
    IF st.started
    THEN [Enqueue(st, Event("text-end", JString(blockId), Undefined))
            EXCEPT !.started = FALSE]
    ELSE st

\* A finish handler that treats the backend finish as the end of the stream.
OnFinishFrameCloses(st) ==
    [Enqueue(st, Event("finish", Undefined, Undefined)) EXCEPT !.done = TRUE]

OnFinishFrame(st) == Enqueue(st, Event("finish", Undefined, Undefined))

\* A switch with a default branch that forwards what it does not know.
DispatchForwardsUnknown(json, st, blockId) ==
    IF json.type.c = "string"
          /\ json.type.v \in {"reasoning-start", "reasoning-delta",
                               "reasoning-end"}
    THEN OnReasoning(json, st)
    ELSE IF json.type = JString("text-start") THEN OnTextStart(st, blockId)
    ELSE IF json.type = JString("text-delta")
         THEN OnTextDelta(json, st, blockId)
    ELSE IF json.type = JString("text-end") THEN OnTextEnd(st, blockId)
    ELSE IF json.type = JString("finish") THEN OnFinishFrame(st)
    ELSE Enqueue(st, Event(json.type.v, json.id, json.delta))

\* switch (json.type)
Dispatch(json, st, blockId) ==
    IF json.type.c # "string" THEN st
    ELSE CASE json.type.v \in {"reasoning-start", "reasoning-delta",
                               "reasoning-end"} -> OnReasoning(json, st)
           [] json.type.v = "text-start" -> OnTextStart(st, blockId)
           [] json.type.v = "text-delta" -> OnTextDelta(json, st, blockId)
           [] json.type.v = "text-end" -> OnTextEnd(st, blockId)
           [] json.type.v = "finish" -> OnFinishFrame(st)
           [] OTHER -> st

\* A frame handler without the try/catch: a parse failure ends the loop.
OnJsonUncaught(payload, st, blockId) ==
    IF ParsesAsJson(payload)
    THEN Dispatch(JsonParse(payload), st, blockId)
    ELSE [st EXCEPT !.done = TRUE]

\* try { JSON.parse ... switch } catch { console.warn }
OnJson(payload, st, blockId) ==
    IF ParsesAsJson(payload)
    THEN Dispatch(JsonParse(payload), st, blockId)
    ELSE st

\* The body of `for (const part of parts)`.
TranscodePart(part, st, blockId) ==
    IF ~StartsWithData(part) THEN st
    ELSE LET payload == Slice6(part) IN
         IF IsDone(payload) THEN OnDone(st, blockId)
         ELSE IF ~StartsWithBrace(payload) THEN st
         ELSE OnJson(payload, st, blockId)

\* for (const part of parts) { ... return on [DONE] ... }
\* The parts lo..hi in order, the range halved as in ConcatRange and the
\* state after the first half taken as a value before the second half.
RECURSIVE TranscodeRange(_, _, _, _, _)
TranscodeRange(parts, lo, hi, st, blockId) ==
    IF lo > hi \/ st.done THEN st
    ELSE IF lo = hi THEN TranscodePart(parts[lo], st, blockId)
    ELSE CHOOSE r \in
           {TranscodeRange(parts, (lo + hi) \div 2 + 1, hi, s, blockId) :
              s \in {TranscodeRange(parts, lo, (lo + hi) \div 2, st,
                                    blockId)}} : TRUE

TranscodeParts(parts, st, blockId) ==
    TranscodeRange(parts, 1, Len(parts), st, blockId)

\* A framing loop that forgets the partial frame between chunks.
RemainderForgotten(parts) == <<>>

\* buffer = parts.pop() ?? ''
Remainder(parts) == Last(parts)

\* One turn of the while loop after a successful read: the new buffer and
\* the loop state after the complete parts.
OnChunk(buf, chunk, started, blockId) ==
    LET parts == Split(buf \o chunk) IN
    [buffer |-> Remainder(parts),
     st |-> TranscodeParts(Front(parts), LoopState(<<>>, started, FALSE),
                           blockId)]

\* ------------------------------------------------- hypothesis extraction
\* Text is the sequence of the strings it was built from; the regular
\* expressions are matched on that sequence, each string standing for its
\* characters.  No string but Blank and LineBreak begins or ends with white
\* space, and the strings of StarStrings are the ones that hold an asterisk.
MarkStart == "<!-- HYPOTHESES_START -->"
MarkEnd == "<!-- HYPOTHESES_END -->"
HeadWord == "**Hypothesis"
Bold == "**"
Colon == ":"
Blank == " "
LineBreak == "\n"
Starred == "*E. coli*"
DigitChars == <<"1", "2", "3", "4", "5", "6", "7", "8", "9">>
StarStrings == {HeadWord, Bold, Starred}

\* \d, \s and [^*]
IsDigit(x) == \E i \in 1..Len(DigitChars) : DigitChars[i] = x
IsSpace(x) == x \in {Blank, LineBreak}
IsPlain(x) == x \notin StarStrings

\* The string at index i; past the end nothing matches.
At(s, i) == IF i >= 1 /\ i <= Len(s) THEN s[i] ELSE ""

\* \d+ , [^*]+ and \s* from index i, greedy: how many strings they take.
RECURSIVE DigitRun(_, _)
DigitRun(s, i) == IF IsDigit(At(s, i)) THEN 1 + DigitRun(s, i + 1) ELSE 0

RECURSIVE PlainRun(_, _)
PlainRun(s, i) ==
    IF i <= Len(s) /\ IsPlain(s[i]) THEN 1 + PlainRun(s, i + 1) ELSE 0

RECURSIVE SpaceRun(_, _)
SpaceRun(s, i) == IF IsSpace(At(s, i)) THEN 1 + SpaceRun(s, i + 1) ELSE 0

FirstMarkEnd(s, from) ==
    LET idx == {i \in from..Len(s) : s[i] = MarkEnd} IN
    IF idx = {} THEN 0 ELSE CHOOSE i \in idx : \A j \in idx : i <= j

\* A marker match that does not ask for the end marker.
HypothesesMatchOpenEnded(text) ==
    LET starts == {i \in 1..Len(text) : text[i] = MarkStart}
    IN IF starts = {} THEN [found |-> FALSE, region |-> <<>>]
       ELSE LET i == CHOOSE k \in starts : \A l \in starts : k <= l
                j == FirstMarkEnd(text, i + 1)
            IN [found |-> TRUE,
                region |-> SubSeq(text, i + 1,
                                  IF j = 0 THEN Len(text) ELSE j - 1)]

\* text.match(/<!-- HYPOTHESES_START -->([\s\S]*?)<!-- HYPOTHESES_END -->/)
HypothesesMatch(text) ==
    LET starts == {i \in 1..Len(text) :
                     /\ text[i] = MarkStart
                     /\ \E j \in (i + 1)..Len(text) : text[j] = MarkEnd}
    IN IF starts = {} THEN [found |-> FALSE, region |-> <<>>]
       ELSE LET i == CHOOSE k \in starts : \A l \in starts : k <= l
                j == FirstMarkEnd(text, i + 1)
            IN [found |-> TRUE, region |-> SubSeq(text, i + 1, j - 1)]

\* title.trim(), description.trim()
TrimText(s) ==
    LET keep == {i \in 1..Len(s) : ~IsSpace(s[i])} IN
    IF keep = {} THEN <<>>
    ELSE SubSeq(s, CHOOSE i \in keep : \A j \in keep : i <= j,
                   CHOOSE i \in keep : \A j \in keep : j <= i)

NoHeading == [ok |-> FALSE, number |-> <<>>, title |-> <<>>, next |-> 0]

\* A heading pattern that lets the title end with the region: the pattern
\* of line 22 without its \*\*\n when the text stops inside the title.
HeadingAtUnclosed(s, i) ==
    LET d == DigitRun(s, i + 2)
        t == i + d + 4
        n == PlainRun(s, t)
        closed == At(s, t + n) = Bold /\ At(s, t + n + 1) = LineBreak
    IN IF /\ At(s, i) = HeadWord
          /\ At(s, i + 1) = Blank
          /\ d >= 1
          /\ At(s, i + d + 2) = Colon
          /\ At(s, i + d + 3) = Blank
          /\ n >= 1
          /\ closed \/ t + n = Len(s) + 1
       THEN [ok |-> TRUE,
             number |-> SubSeq(s, i + 2, i + d + 1),
             title |-> SubSeq(s, t, t + n - 1),
             next |-> IF closed THEN t + n + 2 ELSE t + n]
       ELSE NoHeading

\* /\*\*Hypothesis (\d+): ([^*]+)\*\*\n/ matched at index i: the groups and
\* the index after the line break.
HeadingAt(s, i) ==
    LET d == DigitRun(s, i + 2)
        t == i + d + 4
        n == PlainRun(s, t)
    IN IF /\ At(s, i) = HeadWord
          /\ At(s, i + 1) = Blank
          /\ d >= 1
          /\ At(s, i + d + 2) = Colon
          /\ At(s, i + d + 3) = Blank
          /\ n >= 1
          /\ At(s, t + n) = Bold
          /\ At(s, t + n + 1) = LineBreak
       THEN [ok |-> TRUE,
             number |-> SubSeq(s, i + 2, i + d + 1),
             title |-> SubSeq(s, t, t + n - 1),
             next |-> t + n + 2]
       ELSE NoHeading

\* (?=\n\*\*Hypothesis \d+:|$) at index p
Lookahead(s, p) ==
    \/ p = Len(s) + 1
    \/ /\ At(s, p) = LineBreak
       /\ At(s, p + 1) = HeadWord
       /\ At(s, p + 2) = Blank
       /\ DigitRun(s, p + 3) >= 1
       /\ At(s, p + 3 + DigitRun(s, p + 3)) = Colon

\* ([\s\S]*?) from index `from`: the first index the lookahead holds at.
DescriptionEnd(s, from) ==
    CHOOSE p \in from..(Len(s) + 1) :
        /\ Lookahead(s, p)
        /\ \A q \in from..(p - 1) : ~Lookahead(s, q)

\* `hyp_${chatId}_${messageId}_${number}`
HypothesisId(chatId, messageId, number) ==
    <<"hyp", chatId, messageId, number>>

\* The characters of the id when chat id and message id are UUIDs:
\* "hyp", three underscores, the two ids and the digits of the number.
UuidLength == 36
IdLength(id) == 3 + 1 + UuidLength + 1 + UuidLength + 1 + Len(id[4])

\* ALTER COLUMN "id" TYPE varchar(100)
IdColumnLength == 100

\* while ((match = hypothesisRegex.exec(hypothesesText)) !== null): the
\* records from lastIndex `from` on.
RECURSIVE ExecHypotheses(_, _, _, _)
ExecHypotheses(region, from, chatId, messageId) ==
    LET heads == {i \in from..Len(region) : HeadingAt(region, i).ok}
    IN IF heads = {} THEN <<>>
       ELSE LET i == CHOOSE k \in heads : \A l \in heads : k <= l
                h == HeadingAt(region, i)
                e == DescriptionEnd(region, h.next)
            IN <<[id |-> HypothesisId(chatId, messageId, h.number),
                  title |-> TrimText(h.title),
                  description |-> TrimText(SubSeq(region, h.next, e - 1))]>>
               \o ExecHypotheses(region, e, chatId, messageId)

extractHypothesesFromText(text, chatId, messageId) ==
    LET m == HypothesesMatch(text) IN
    IF ~m.found THEN <<>>
    ELSE ExecHypotheses(m.region, 1, chatId, messageId)

\* The first text part with a non-empty extraction decides.
RECURSIVE FirstExtraction(_, _, _)
FirstExtraction(textParts, chatId, messageId) ==
    IF textParts = <<>> THEN <<>>
    ELSE LET hs == IF Head(textParts).text # <<>>
                   THEN extractHypothesesFromText(Head(textParts).text,
                                                  chatId, messageId)
                   ELSE <<>>
         IN IF hs # <<>> THEN hs
            ELSE FirstExtraction(Tail(textParts), chatId, messageId)

getHypothesesFromMessage(message, chatId) ==
    FirstExtraction(SelectSeq(message.parts, LAMBDA p : p.type = "text"),
                    chatId, message.id)

\* ------------------------------- the extractor of the message component
\* src/unnamed/part_008 carries its own extractHypothesesFromText, with
\* another pattern and an id made of Date.now() and Math.random().
\* (?=\n\*\*Hypothesis|$) at index p
VariantLookahead(s, p) ==
    \/ p = Len(s) + 1
    \/ At(s, p) = LineBreak /\ At(s, p + 1) = HeadWord

\* ([^*]+?) from index `from`, at least one string: the first index after
\* it the lookahead holds at with no asterisk in between, 0 when none.
VariantDescriptionEnd(s, from) ==
    LET ends == {p \in (from + 1)..(Len(s) + 1) :
                   /\ VariantLookahead(s, p)
                   /\ \A q \in from..(p - 1) : IsPlain(s[q])}
    IN IF ends = {} THEN 0 ELSE CHOOSE p \in ends : \A q \in ends : p <= q

\* /\*\*Hypothesis (\d+):\s*([^*]+?)\*\*\s*\n([^*]+?)(?=...)/ matched at
\* index i.  \s*\n is greedy: the last line break of the white space after
\* the title that leaves a description is taken.
VariantMatchAt(s, i) ==
    LET d == DigitRun(s, i + 2)
        t == i + d + 3
        n == PlainRun(s, t)
        w == t + n + 1
        breaks == {a \in w..(w + SpaceRun(s, w) - 1) :
                     s[a] = LineBreak /\ VariantDescriptionEnd(s, a + 1) # 0}
    IN IF /\ At(s, i) = HeadWord
          /\ At(s, i + 1) = Blank
          /\ d >= 1
          /\ At(s, i + d + 2) = Colon
          /\ n >= 1
          /\ At(s, t + n) = Bold
          /\ breaks # {}
       THEN LET a == CHOOSE x \in breaks : \A y \in breaks : y <= x
            IN [ok |-> TRUE,
                number |-> SubSeq(s, i + 2, i + d + 1),
                title |-> SubSeq(s, t, t + n - 1),
                description |-> SubSeq(s, a + 1,
                                       VariantDescriptionEnd(s, a + 1) - 1),
                next |-> VariantDescriptionEnd(s, a + 1)]
       ELSE [ok |-> FALSE, number |-> <<>>, title |-> <<>>,
             description |-> <<>>, next |-> 0]

\* Math.random().toString(36).substring(2, 11): the draw-th value of the
\* generator in the state `seed`.
RandomString(seed, draw) == <<seed, draw>>

\* `hyp_${Date.now()}_${Math.random()...}_${num}`
VariantId(now, seed, draw, number) ==
    <<"hyp", now, RandomString(seed, draw), number>>

RECURSIVE VariantExec(_, _, _, _, _)
VariantExec(region, from, draw, now, seed) ==
    LET heads == {i \in from..Len(region) : VariantMatchAt(region, i).ok}
    IN IF heads = {} THEN <<>>
       ELSE LET i == CHOOSE k \in heads : \A l \in heads : k <= l
                m == VariantMatchAt(region, i)
            IN <<[id |-> VariantId(now, seed, draw, m.number),
                  title |-> TrimText(m.title),
                  description |-> TrimText(m.description)]>>
               \o VariantExec(region, m.next, draw + 1, now, seed)

VariantExtract(text, now, seed) ==
    LET m == HypothesesMatch(text) IN
    IF ~m.found THEN <<>> ELSE VariantExec(m.region, 1, 1, now, seed)

\* Each text part is a call of its own; the generator moves on only where
\* an id is made, and the first non-empty result ends the loop.
RECURSIVE VariantFirstExtraction(_, _, _)
VariantFirstExtraction(textParts, now, seed) ==
    IF textParts = <<>> THEN <<>>
    ELSE LET hs == IF Head(textParts).text # <<>>
                   THEN VariantExtract(Head(textParts).text, now, seed)
                   ELSE <<>>
         IN IF hs # <<>> THEN hs
            ELSE VariantFirstExtraction(Tail(textParts), now, seed)

VariantHypothesesFromMessage(message, now, seed) ==
    VariantFirstExtraction(SelectSeq(message.parts, LAMBDA p : p.type = "text"),
                           now, seed)

\* ------------------------------------------------------ the backend body
Frame(payload) == <<PREFIX>> \o payload \o <<NL, NL>>
Obj(members) == <<LB>> \o members \o <<RB>>

\* What the backend may put on the wire: the seven frame kinds and the
\* sentinel of the wire format, a frame that is no JSON, and a stray line
\* break (the part that follows it does not begin with the prefix).
Menu ==
    {Frame(Obj(<<TYPE("reasoning-start"), ID("r1")>>)),
     Frame(Obj(<<TYPE("reasoning-delta"), ID("r1"), DELTA("think")>>)),
     Frame(Obj(<<TYPE("reasoning-end"), ID("r1")>>)),
     Frame(Obj(<<TYPE("text-start"), ID("b1")>>)),
     Frame(Obj(<<TYPE("text-delta"), ID("b1"), DELTA("Hello")>>)),
     Frame(Obj(<<TYPE("text-delta"), DELTA(" world")>>)),
     Frame(Obj(<<TYPE("text-delta"), NUMDELTA("7")>>)),
     Frame(Obj(<<TYPE("text-end"), ID("b1")>>)),
     Frame(Obj(<<TYPE("finish")>>)),
     Frame(<<DONE>>),
     Frame(<<LB, TYPE("text-delta"), JUNK>>),
     <<NL>>}

\* The frames of a whole turn: the ones that decide what is accumulated
\* and when the output ends.
TurnMenu ==
    {Frame(Obj(<<TYPE("reasoning-delta"), ID("r1"), DELTA("think")>>)),
     Frame(Obj(<<TYPE("text-delta"), ID("b1"), DELTA("Hello")>>)),
     Frame(Obj(<<TYPE("text-delta"), DELTA(" world")>>)),
     Frame(Obj(<<TYPE("text-end"), ID("b1")>>)),
     Frame(Obj(<<TYPE("finish")>>)),
     Frame(<<DONE>>)}

BodiesUpTo(menu, k) ==
    {Concat(items) : items \in UNION {[1..n -> menu] : n \in 0..k}}

Bodies == BodiesUpTo(Menu, MaxFrames)
TurnBodies == BodiesUpTo(TurnMenu, MaxTurnFrames)

\* ------------------------------------------------------------ identifiers
ChatId == "c1"
UserMessageId == "m1"
SessionUser == "u1"
OtherUser == "u2"
UuidPool == <<"uuid-1", "uuid-2", "uuid-3">>

Null == [isNull |-> TRUE, list |-> <<>>]
NotNull(list) == [isNull |-> FALSE, list |-> list]

TextPart(text) == [type |-> "text", text |-> text]
UserParts == <<TextPart(<<"hi">>)>>

VARIABLES
    pc,                 \* where the turn is
    response,           \* what POST returned
    session,            \* the session user, "none" without one
    chats,              \* Chat rows
    messages,           \* Message rows, in insertion order
    streamIds,          \* Stream rows
    uuids,              \* how many ids generateUUID has handed out
    streamId,           \* the turn's stream id
    messageId,          \* the id of the response message
    body,               \* the wire tokens the backend has to send
    pos,                \* how many of them reader.read() has handed over
    buffer,
    textBlockStarted,
    textBlockId,
    out,                \* every event handed to controller.enqueue, in order
    ctrl,               \* backendStream: "open", "closed" or "errored"
    msgParts,           \* the parts of the response message
    ragResponse,        \* how the fetch of the backend ended
    ui,                 \* the UI message stream: "none", "open", "closed"
                        \* (finished), "aborted" or "cancelled" (client gone)
    calls,              \* the storage writes and the backend request, in
                        \* the order they were made, each with its outcome
    rendered,           \* what the client components extracted, per render
    hypothesisRows,     \* Hypothesis rows
    feedbackRows,       \* IndividualHypothesisFeedback rows
    messageFeedbackRows,\* HypothesisFeedback rows
    batch,              \* the saveHypotheses call under way
    statement,          \* the last statement on these tables, with its outcome
    requests            \* the feedback requests under way, by client

vars == <<pc, response, session, chats, messages, streamIds, uuids, streamId,
          messageId, body, pos, buffer, textBlockStarted, textBlockId, out,
          ctrl, msgParts, ragResponse, ui, calls, rendered, hypothesisRows,
          feedbackRows, messageFeedbackRows, batch, statement, requests>>

dbVars == <<chats, messages, streamIds>>
streamVars == <<body, pos, buffer, textBlockStarted, textBlockId, out, ctrl,
                msgParts, ragResponse>>
idVars == <<uuids, streamId, messageId>>
storeVars == <<hypothesisRows, feedbackRows, messageFeedbackRows, batch,
               statement, requests>>

\* One entry of `calls`: the function, the rows it was given (message
\* writes), and whether it returned rather than threw.
Call(fn, rows, ok) == [fn |-> fn, rows |-> rows, ok |-> ok]

ChatRow(id, userId) == [id |-> id, userId |-> userId]

\* No saveHypotheses call is under way.
Idle == [state |-> "idle"]

\* The clients whose feedback requests may be under way at the same time,
\* and a client that has sent none.
Clients == {"tab-1", "tab-2"}
NoRequest == [pc |-> "idle"]

\* The hypothesis and feedback tables before anything is written.
EmptyStore ==
    /\ hypothesisRows = {}
    /\ feedbackRows = {}
    /\ messageFeedbackRows = {}
    /\ batch = Idle
    /\ statement = [fn |-> "none"]
    /\ requests = [c \in Clients |-> NoRequest]

Init ==
    /\ pc = "parse"
    /\ response = "none"
    /\ session = "none"
    /\ chats \in {{}, {ChatRow(ChatId, SessionUser)}, {ChatRow(ChatId, OtherUser)}}
    /\ messages = <<>>
    /\ streamIds = {}
    /\ uuids = 0
    /\ streamId = ""
    /\ messageId = ""
    /\ body = <<>>
    /\ pos = 0
    /\ buffer = <<>>
    /\ textBlockStarted = FALSE
    /\ textBlockId = ""
    /\ out = <<>>
    /\ ctrl = "none"
    /\ msgParts = <<>>
    /\ ragResponse = "none"
    /\ ui = "none"
    /\ calls = <<>>
    /\ rendered = {}
    /\ EmptyStore

\* return new ChatSDKError(code).toResponse()
Respond(code) ==
    /\ pc' = "responded"
    /\ response' = code

\* ---------------------------------------------------------- POST, part 1
\* request.json() and postRequestBodySchema.parse
ParseBody ==
    /\ pc = "parse"
    /\ \E valid \in BOOLEAN :
         IF valid THEN pc' = "auth" /\ UNCHANGED response
         ELSE Respond("bad_request:api")
    /\ UNCHANGED <<session, dbVars, idVars, streamVars, ui, calls,
                   rendered, storeVars>>

\* catch (error) { if (error instanceof ChatSDKError) return
\* error.toResponse(); }: for any other error the function ends without a
\* return statement and POST resolves to undefined.
Catch(error) ==
    IF error.isChatSDKError THEN Respond(error.code)
    ELSE pc' = "responded" /\ response' = "undefined"

\* What a call into a library may throw: not a ChatSDKError.
LibraryError == [isChatSDKError |-> FALSE, code |-> ""]

\* auth() and the session check; auth() may reject.
Auth ==
    /\ pc = "auth"
    /\ \E u \in {SessionUser, "none", "throws"} :
         IF u = "throws"
         THEN session' = "none" /\ Catch(LibraryError)
         ELSE /\ session' = u
              /\ IF u = "none" THEN Respond("unauthorized:chat")
                 ELSE pc' = "rate" /\ UNCHANGED response
    /\ UNCHANGED <<dbVars, idVars, streamVars, ui, calls, rendered, storeVars>>

\* getMessageCountByUserId against the entitlement of the user type
RateLimit ==
    /\ pc = "rate"
    /\ \E over \in BOOLEAN :
         IF over THEN Respond("rate_limit:chat")
         ELSE pc' = "getChat" /\ UNCHANGED response
    /\ UNCHANGED <<session, dbVars, idVars, streamVars, ui, calls,
                   rendered, storeVars>>

\* getChatById: the row, or null when there is none or the select throws
getChatById(id, selectThrows) ==
    IF selectThrows THEN {}
    ELSE {c \in chats : c.id = id}

\* A chat lookup that upserts the chat before it checks the owner.
GetChatUpsertFirst ==
    /\ pc = "getChat"
    /\ calls' = Append(calls, Call("saveChat", <<>>, TRUE))
    /\ IF \E c \in chats : c.id = ChatId /\ c.userId # session
       THEN Respond("forbidden:chat")
       ELSE pc' = "saveUser" /\ UNCHANGED response
    /\ chats' = IF \E c \in chats : c.id = ChatId THEN chats
                ELSE chats \cup {[id |-> ChatId, userId |-> session]}
    /\ UNCHANGED <<session, messages, streamIds, idVars, streamVars, ui,
                   rendered, storeVars>>

\* const chat = await getChatById({ id }) and the branch on it
GetChat ==
    /\ pc = "getChat"
    /\ \E selectThrows \in BOOLEAN :
         LET chat == getChatById(ChatId, selectThrows) IN
         IF chat = {} THEN pc' = "saveChat" /\ UNCHANGED response
         ELSE IF \E c \in chat : c.userId # session
              THEN Respond("forbidden:chat")
              ELSE pc' = "saveUser" /\ UNCHANGED response
    /\ UNCHANGED <<session, dbVars, idVars, streamVars, ui, calls,
                   rendered, storeVars>>

\* saveChat: insert; a duplicate key is swallowed, any other error is
\* thrown as a ChatSDKError and POST returns it.
SaveChat ==
    /\ pc = "saveChat"
    /\ \E insertThrows \in BOOLEAN :
         /\ calls' = Append(calls, Call("saveChat", <<>>, ~insertThrows))
         /\ IF insertThrows
            THEN Respond("bad_request:database") /\ UNCHANGED chats
            ELSE /\ chats' = IF \E c \in chats : c.id = ChatId THEN chats
                             ELSE chats \cup {ChatRow(ChatId, session)}
                 /\ pc' = "saveUser"
                 /\ UNCHANGED response
    /\ UNCHANGED <<session, messages, streamIds, idVars, streamVars, ui,
                   rendered, storeVars>>

\* Another POST /api/chat, of another user and with the same new chat id,
\* running at the same time: its saveChat falls between the lookup and the
\* saveChat of this request.
ConcurrentSaveChat ==
    /\ pc = "saveChat"
    /\ ~\E c \in chats : c.id = ChatId
    /\ chats' = chats \cup {ChatRow(ChatId, OtherUser)}
    /\ UNCHANGED <<pc, response, session, messages, streamIds, idVars,
                   streamVars, ui, calls, rendered, storeVars>>

MessageRow(id, role, parts, hypotheses) ==
    [id |-> id, chatId |-> ChatId, role |-> role, parts |-> parts,
     hypotheses |-> hypotheses]

\* db.insert(message).values(rows): all rows or none; a duplicate key is
\* swallowed by saveMessages.
InsertMessages(rows) ==
    IF \E i \in 1..Len(rows), j \in 1..Len(messages) : rows[i].id = messages[j].id
    THEN messages
    ELSE messages \o rows

\* A user-message save that is not awaited: the turn goes on whether or
\* not the insert fails.
SaveUserMessageUnawaited ==
    /\ pc = "saveUser"
    /\ \E insertThrows \in BOOLEAN :
       \E rows \in {<<MessageRow(UserMessageId, "user", UserParts, Null)>>} :
         /\ calls' = Append(calls, Call("saveMessages", rows, ~insertThrows))
         /\ messages' = IF insertThrows THEN messages ELSE InsertMessages(rows)
         /\ pc' = "createStream"
    /\ UNCHANGED <<response, session, chats, streamIds, idVars, streamVars, ui,
                   rendered, storeVars>>

\* getMessagesByChatId, then saveMessages with the user message
SaveUserMessage ==
    /\ pc = "saveUser"
    /\ \E insertThrows \in BOOLEAN :
       \E rows \in {<<MessageRow(UserMessageId, "user", UserParts, Null)>>} :
         /\ calls' = Append(calls, Call("saveMessages", rows, ~insertThrows))
         /\ IF insertThrows
            THEN Respond("bad_request:database") /\ UNCHANGED messages
            ELSE /\ messages' = InsertMessages(rows)
                 /\ pc' = "createStream"
                 /\ UNCHANGED response
    /\ UNCHANGED <<session, chats, streamIds, idVars, streamVars, ui,
                   rendered, storeVars>>

\* generateUUID()
NextUuid == UuidPool[uuids + 1]

\* const streamId = generateUUID(); await createStreamId(...)
CreateStreamId ==
    /\ pc = "createStream"
    /\ uuids' = uuids + 1
    /\ streamId' = NextUuid
    /\ \E insertThrows \in BOOLEAN :
         /\ calls' = Append(calls, Call("createStreamId", <<>>, ~insertThrows))
         /\ IF insertThrows
            THEN Respond("bad_request:database") /\ UNCHANGED streamIds
            ELSE /\ streamIds' = streamIds
                                   \cup {[id |-> NextUuid, chatId |-> ChatId]}
                 /\ pc' = "openStream"
                 /\ UNCHANGED response
    /\ UNCHANGED <<session, chats, messages, messageId, streamVars, ui,
                   rendered, storeVars>>

\* createUIMessageStream: execute builds backendStream, whose start() runs
\* up to the fetch, and merges it; the response message gets its id from
\* generateId; POST returns the stream as its response.
OpenStream ==
    /\ pc = "openStream"
    /\ uuids' = uuids + 1
    /\ messageId' = NextUuid
    /\ ctrl' = "open"
    /\ ui' = "open"
    /\ response' = "stream"
    /\ pc' = "fetch"
    /\ UNCHANGED <<session, dbVars, streamId, body, pos, buffer,
                   textBlockStarted, textBlockId, out, msgParts, ragResponse,
                   calls, rendered, storeVars>>

\* ------------------------------------------------- backendStream.start()
\* await fetch(...): it throws, or answers with a status that is not ok or
\* without a body (controller.error and return), or answers with a body.
Fetch ==
    /\ pc = "fetch"
    /\ \E outcome \in {"throws", "not-ok", "no-body", "ok"} :
         /\ ragResponse' = outcome
         /\ calls' = Append(calls, Call("fetch", <<>>, outcome # "throws"))
         /\ IF outcome = "ok"
            THEN /\ \E b \in TurnBodies : body' = b
                 /\ uuids' = uuids + 1
                 /\ textBlockId' = NextUuid
                 /\ pc' = "reading"
                 /\ UNCHANGED ctrl
            ELSE /\ ctrl' = "errored"
                 /\ pc' = "returned"
                 /\ UNCHANGED <<body, uuids, textBlockId>>
    /\ UNCHANGED <<response, session, dbVars, streamId, messageId, pos, buffer,
                   textBlockStarted, out, msgParts, ui, rendered, storeVars>>

\* The response message as the UI message stream builds it from the
\* events merged into it: text-start opens a text part, text-delta appends
\* to the open one.
ApplyEvent(parts, e) ==
    IF e.type = "text-start" THEN Append(parts, TextPart(<<>>))
    ELSE IF e.type = "text-delta" /\ parts # <<>>
    THEN [parts EXCEPT ![Len(parts)].text = Append(@, e.delta.v)]
    ELSE parts

\* The events lo..hi in order, the range halved as in ConcatRange.
RECURSIVE ApplyRange(_, _, _, _)
ApplyRange(parts, events, lo, hi) ==
    IF lo > hi THEN parts
    ELSE IF lo = hi THEN ApplyEvent(parts, events[lo])
    ELSE CHOOSE r \in
           {ApplyRange(p, events, (lo + hi) \div 2 + 1, hi) :
              p \in {ApplyRange(parts, events, lo, (lo + hi) \div 2)}} : TRUE

ApplyEvents(parts, events) == ApplyRange(parts, events, 1, Len(events))

\* The sizes of the chunk reader.read() may hand over at pos: a short run of
\* tokens cut anywhere, or a longer run that ends with a frame delimiter
\* or with the body.
ChunkSizes(b, p) ==
    {n \in 1..(Len(b) - p) :
       \/ n <= MaxChunk
       \/ p + n = Len(b)
       \/ b[p + n - 1] = NL /\ b[p + n] = NL}

\* reader.read() hands over the next n tokens of the body; the chunk is
\* framed and transcoded; [DONE] closes the controller and returns.  The
\* response message takes the events in while the UI stream is open.
ReadChunk ==
    /\ pc = "reading"
    /\ \E n \in ChunkSizes(body, pos) :
       \E r \in {OnChunk(buffer, SubSeq(body, pos + 1, pos + n),
                             textBlockStarted, textBlockId)} :
               /\ pos' = pos + n
               /\ buffer' = r.buffer
               /\ textBlockStarted' = r.st.started
               /\ out' = out \o r.st.events
               /\ msgParts' = IF ui = "open"
                              THEN ApplyEvents(msgParts, r.st.events)
                              ELSE msgParts
               /\ ctrl' = IF r.st.done THEN "closed" ELSE ctrl
               /\ pc' = IF r.st.done THEN "returned" ELSE pc
    /\ UNCHANGED <<response, session, dbVars, idVars, body, textBlockId,
                   ragResponse, ui, calls, rendered, storeVars>>

\* reader.read() reports done after the whole body: the loop breaks and
\* start() returns.
ReadDone ==
    /\ pc = "reading"
    /\ pos = Len(body)
    /\ pc' = "returned"
    /\ UNCHANGED <<response, session, dbVars, idVars, streamVars, ui, calls,
                   rendered, storeVars>>

\* reader.read() reports done earlier, the backend having cut the body
\* short after any token (the last frame may lack its blank line).
ReadDoneEarly ==
    /\ pc = "reading"
    /\ pos < Len(body)
    /\ pc' = "returned"
    /\ UNCHANGED <<response, session, dbVars, idVars, streamVars, ui, calls,
                   rendered, storeVars>>

\* reader.read() throws: the catch block errors the controller.
ReadError ==
    /\ pc = "reading"
    /\ ctrl' = "errored"
    /\ pc' = "returned"
    /\ UNCHANGED <<response, session, dbVars, idVars, body, pos, buffer,
                   textBlockStarted, textBlockId, out, msgParts, ragResponse,
                   ui, calls, rendered, storeVars>>

\* ------------------------------------------------------------- onFinish
\* The merged backendStream has closed or errored (an error becomes an
\* error part), so the UI message stream closes and calls onFinish with
\* the response message.
ResponseMessage == [id |-> messageId, role |-> "assistant", parts |-> msgParts]

\* A row that is written without the parts of the message.
AssistantRowWithoutParts(message) ==
    MessageRow(message.id, message.role, <<>>, Null)

\* A row that carries the list of the extractor whatever its length.
AssistantRowEmptyList(message) ==
    MessageRow(message.id, message.role, message.parts,
               NotNull(getHypothesesFromMessage(message, ChatId)))

AssistantRow(message) ==
    LET extractedHypotheses == getHypothesesFromMessage(message, ChatId) IN
    MessageRow(message.id, message.role, message.parts,
               IF Len(extractedHypotheses) > 0
               THEN NotNull(extractedHypotheses) ELSE Null)

RECURSIVE MapRows(_)
MapRows(ms) ==
    IF ms = <<>> THEN <<>> ELSE <<AssistantRow(Head(ms))>> \o MapRows(Tail(ms))

\* An onFinish that saves only when the backend stream ended with [DONE].
OnFinishRowsCompletedOnly(finished) ==
    IF ctrl = "closed"
    THEN MapRows(SelectSeq(finished, LAMBDA m : m.role = "assistant"))
    ELSE <<>>

\* The body of onFinish: the rows handed to saveMessages, none when there
\* is no assistant message.
OnFinishRows(finished) ==
    MapRows(SelectSeq(finished, LAMBDA m : m.role = "assistant"))

\* onFinish({ messages }): saveMessages is called unless there is nothing
\* to save; the insert may throw.
OnFinishSave(finished) ==
    \E rows \in {OnFinishRows(finished)} :
       IF Len(rows) = 0 THEN UNCHANGED <<messages, calls>>
       ELSE \E insertThrows \in BOOLEAN :
               /\ calls' = Append(calls, Call("saveMessages", rows, ~insertThrows))
               /\ messages' = IF insertThrows THEN messages
                               ELSE InsertMessages(rows)

\* A stream lifecycle that does not wait for the merged stream to end.
MergeSettledEarly == TRUE

\* dataStream.merge(backendStream): the merged stream has ended when its
\* controller was closed or errored.
MergeSettled == ctrl \in {"closed", "errored"}

OnFinish ==
    /\ ui = "open"
    /\ MergeSettled
    /\ ui' = "closed"
    /\ OnFinishSave(<<ResponseMessage>>)
    /\ UNCHANGED <<pc, response, session, chats, streamIds, idVars, streamVars,
                   rendered, storeVars>>

\* The client disconnects and the response stream is cancelled.  Nothing
\* in POST listens for it (backendStream has no cancel handler, start()
\* goes on reading); what the UI message stream does is the library's
\* choice: it calls onFinish with the message built so far, or it never
\* calls it.
Cancel ==
    /\ ui = "open"
    /\ pc \in {"fetch", "reading", "returned"}
    /\ \E finishes \in BOOLEAN :
         IF finishes
         THEN ui' = "aborted" /\ OnFinishSave(<<ResponseMessage>>)
         ELSE ui' = "cancelled" /\ UNCHANGED <<messages, calls>>
    /\ UNCHANGED <<pc, response, session, chats, streamIds, idVars, streamVars,
                   rendered, storeVars>>

Next ==
    \/ ParseBody
    \/ Auth
    \/ RateLimit
    \/ GetChat
    \/ SaveChat
    \/ ConcurrentSaveChat
    \/ SaveUserMessage
    \/ CreateStreamId
    \/ OpenStream
    \/ Fetch
    \/ ReadChunk
    \/ ReadDone
    \/ ReadDoneEarly
    \/ ReadError
    \/ OnFinish
    \/ Cancel

Spec == Init /\ [][Next]_vars

\* ------------------------------------------------- the transcoder alone
\* The turn at the first reader.read(): chat, user message and stream row
\* are written, the fetch has answered with a body.
InitTranscoder ==
    /\ pc = "reading"
    /\ response = "stream"
    /\ session = SessionUser
    /\ chats = {ChatRow(ChatId, SessionUser)}
    /\ messages = <<MessageRow(UserMessageId, "user", UserParts, Null)>>
    /\ streamIds = {[id |-> UuidPool[1], chatId |-> ChatId]}
    /\ uuids = Len(UuidPool)
    /\ streamId = UuidPool[1]
    /\ messageId = UuidPool[2]
    /\ body \in Bodies
    /\ pos = 0
    /\ buffer = <<>>
    /\ textBlockStarted = FALSE
    /\ textBlockId = UuidPool[3]
    /\ out = <<>>
    /\ ctrl = "open"
    /\ msgParts = <<>>
    /\ ragResponse = "ok"
    /\ ui = "open"
    /\ calls = <<Call("saveMessages",
                      <<MessageRow(UserMessageId, "user", UserParts, Null)>>,
                      TRUE),
                 Call("createStreamId", <<>>, TRUE),
                 Call("fetch", <<>>, TRUE)>>
    /\ rendered = {}
    /\ EmptyStore

NextTranscoder ==
    \/ ReadChunk
    \/ ReadDone

SpecTranscoder == InitTranscoder /\ [][NextTranscoder]_vars

\* ------------------------------------------- the frames the loop passes by
\* Bodies with the frames the loop has no case for: a line of another SSE
\* field, a comment line, the prefix after a blank, an object of a type
\* the switch does not name, an object without a type; among them frames
\* the loop does handle.
IgnoredMenu ==
    {<<Tok("word", "event: ping"), NL, NL>>,
     <<Tok("word", ": keep-alive"), NL, NL>>,
     <<SP>> \o Frame(Obj(<<TYPE("text-delta"), DELTA("Hello")>>)),
     Frame(Obj(<<TYPE("error"), ID("b1"), DELTA("failed")>>)),
     Frame(Obj(<<ID("b1"), DELTA("lost")>>)),
     Frame(Obj(<<TYPE("text-delta"), ID("b1"), DELTA("Hello")>>)),
     Frame(Obj(<<TYPE("text-end"), ID("b1")>>)),
     Frame(Obj(<<TYPE("reasoning-delta"), ID("r1"), DELTA("think")>>)),
     Frame(<<DONE>>)}

InitIgnored ==
    /\ pc = "reading"
    /\ response = "stream"
    /\ session = SessionUser
    /\ chats = {ChatRow(ChatId, SessionUser)}
    /\ messages = <<MessageRow(UserMessageId, "user", UserParts, Null)>>
    /\ streamIds = {[id |-> UuidPool[1], chatId |-> ChatId]}
    /\ uuids = Len(UuidPool)
    /\ streamId = UuidPool[1]
    /\ messageId = UuidPool[2]
    /\ body \in BodiesUpTo(IgnoredMenu, MaxFrames)
    /\ pos = 0
    /\ buffer = <<>>
    /\ textBlockStarted = FALSE
    /\ textBlockId = UuidPool[3]
    /\ out = <<>>
    /\ ctrl = "open"
    /\ msgParts = <<>>
    /\ ragResponse = "ok"
    /\ ui = "open"
    /\ calls = <<Call("saveMessages",
                      <<MessageRow(UserMessageId, "user", UserParts, Null)>>,
                      TRUE),
                 Call("createStreamId", <<>>, TRUE),
                 Call("fetch", <<>>, TRUE)>>
    /\ rendered = {}
    /\ EmptyStore

SpecIgnored == InitIgnored /\ [][NextTranscoder]_vars

\* ------------------------------------------- the answers with hypotheses
\* The answer of the backend as the prompt asks for it: blocks
\* "**Hypothesis k: title**\ndescription" between the two markers.
Heading(number, title) ==
    <<HeadWord, Blank>> \o number \o <<Colon, Blank>> \o title
                        \o <<Bold, LineBreak>>

Block(b) == Heading(b.number, b.title) \o b.description \o <<LineBreak>>

\* Titles and descriptions: padded with white space, with bold text in the
\* description, with an italic name in the title.
Contents ==
    {[title |-> <<Blank, "Alpha", Blank>>,
      description |-> <<LineBreak, "first", Blank, "idea", Blank>>],
     [title |-> <<"Beta">>,
      description |-> <<Bold, "key", Bold>>],
     [title |-> <<"Role", Blank, Starred>>,
      description |-> <<"third">>]}

NumberedBlock(k, c) ==
    [number |-> <<DigitChars[k]>>, title |-> c.title,
     description |-> c.description]

\* What else the region may hold: a heading without the blank after the
\* colon, a paragraph.
OtherItems ==
    {<<HeadWord, Blank, "1", Colon, "Delta", Bold, LineBreak, "fourth",
       LineBreak>>,
     <<"Some", Blank, "text", LineBreak>>}

\* The region: item k is block k or one of the other items.
ItemsAt(k) == {Block(NumberedBlock(k, c)) : c \in Contents} \cup OtherItems

RegionMenu == UNION {ItemsAt(k) : k \in 1..MaxBlocks}

Regions ==
    {Concat(items) :
       items \in {f \in UNION {[1..n -> RegionMenu] : n \in 0..MaxBlocks} :
                    \A k \in DOMAIN f : f[k] \in ItemsAt(k)}}

\* The region in the text: marked, marked with text around, the end marker
\* or the start marker missing, the end marker first, the markers in lower
\* case, no marker.
Marked(r) == <<MarkStart, LineBreak>> \o r \o <<MarkEnd>>
MarkedWithin(r) ==
    <<"Intro", LineBreak, MarkStart, LineBreak>> \o r
        \o <<MarkEnd, LineBreak, "Outro">>
Layouts(r) ==
    {Marked(r),
     MarkedWithin(r),
     <<MarkStart, LineBreak>> \o r,
     r \o <<MarkEnd>>,
     <<MarkEnd, LineBreak>> \o r \o <<MarkStart>>,
     <<"<!-- hypotheses_start -->", LineBreak>> \o r
         \o <<"<!-- hypotheses_end -->">>,
     r}

Texts == UNION {Layouts(r) : r \in Regions}

\* The text as the backend streams it, a frame for each string; before it
\* nothing, an empty text block, or a text block of its own.  The frames
\* are kept as the parts buffer.split hands to the loop.
DataLine(payload) == <<PREFIX>> \o payload

TextLines(text) ==
    [i \in 1..Len(text) |->
       DataLine(Obj(<<TYPE("text-delta"), DELTA(text[i])>>))]

Leads ==
    {<<DataLine(Obj(<<TYPE("text-start")>>)),
       DataLine(Obj(<<TYPE("text-end")>>))>>,
     <<DataLine(Obj(<<TYPE("text-delta"), DELTA("Hello")>>)),
       DataLine(Obj(<<TYPE("text-end")>>))>>}

\* Regions of their own kind: a heading whose number has as many digits as
\* the bound allows, or one fewer; a heading with nothing before the next
\* heading, with and without an empty line between the two.
LongOrdinals ==
    {[i \in 1..n |-> DigitChars[1]] : n \in {MaxDigits - 1, MaxDigits}}

SpecialRegions ==
    {Block([number |-> n, title |-> <<"Alpha">>, description |-> <<"first">>]) :
       n \in LongOrdinals}
    \cup {Heading(<<DigitChars[1]>>, <<"Empty">>) \o gap
             \o Block(NumberedBlock(2, c)) :
           gap \in {<<>>, <<LineBreak>>}, c \in Contents}

\* The answer the model stopped writing: after a first block the heading of
\* the second one ends inside the title, after the number, or the last
\* description ends without its line break; with the end marker after it
\* and without.
TruncatedRegions ==
    {Block(NumberedBlock(1, c)) \o cut :
       c \in Contents,
       cut \in {<<HeadWord, Blank, DigitChars[2], Colon, Blank, "Bet">>,
                <<HeadWord, Blank, DigitChars[2]>>,
                Heading(<<DigitChars[2]>>, <<"Beta">>) \o <<"sec">>}}

CutOff(r) == <<MarkStart, LineBreak>> \o r

\* The answer that numbers two blocks alike: the model repeats a number.
RepeatedRegions ==
    {Block(NumberedBlock(1, c)) \o Block(NumberedBlock(1, d)) :
       c \in Contents, d \in Contents}

\* The marked text sent as two text blocks: a text-end in the middle of it,
\* the next delta opens a block again.
InTwoBlocks(t) ==
    TextLines(SubSeq(t, 1, Len(t) \div 2))
        \o <<DataLine(Obj(<<TYPE("text-end")>>))>>
        \o TextLines(SubSeq(t, Len(t) \div 2 + 1, Len(t)))

Answers ==
    {TextLines(t) \o <<DataLine(<<DONE>>)>> : t \in Texts}
        \cup {lead \o TextLines(Marked(r)) \o <<DataLine(<<DONE>>)>> :
                lead \in Leads, r \in Regions}
        \cup {TextLines(Marked(r)) \o <<DataLine(<<DONE>>)>> :
                r \in SpecialRegions}
        \cup {InTwoBlocks(Marked(r)) \o <<DataLine(<<DONE>>)>> :
                r \in Regions}
        \cup {TextLines(t) \o <<DataLine(<<DONE>>)>> :
                t \in UNION {{Marked(r), CutOff(r)} : r \in TruncatedRegions}}
        \cup {TextLines(Marked(r)) \o <<DataLine(<<DONE>>)>> :
                r \in RepeatedRegions}

BodyOf(parts) == Concat([i \in 1..Len(parts) |-> parts[i] \o <<NL, NL>>])

\* ------------------------------------------- the end of a turn, rendered
\* The message component and the feedback component extract the hypotheses
\* again when they render the finished message.
Instants == {"t1", "t2"}
Seeds == {"s1", "s2"}

Rendering(fn, message, chatId, list) ==
    [fn |-> fn, parts |-> message.parts, chatId |-> chatId,
     messageId |-> message.id, list |-> list]

\* getHypothesesFromMessage(message, chatId) of lib/hypothesis-utils
RenderFeedback ==
    /\ ui = "closed"
    /\ rendered' = rendered \cup
         {Rendering("hypothesis-utils", ResponseMessage, ChatId,
                    getHypothesesFromMessage(ResponseMessage, ChatId))}
    /\ UNCHANGED <<pc, response, session, dbVars, idVars, streamVars, ui,
                   calls, storeVars>>

\* getHypothesesFromMessage(message) of the message component: Date.now()
\* and Math.random() answer what they will.
RenderMessage ==
    /\ ui = "closed"
    /\ \E now \in Instants, seed \in Seeds :
         rendered' = rendered \cup
           {Rendering("message", ResponseMessage, ChatId,
                      VariantHypothesesFromMessage(ResponseMessage, now, seed))}
    /\ UNCHANGED <<pc, response, session, dbVars, idVars, streamVars, ui,
                   calls, storeVars>>

\* The turn when the backend has answered with the whole body.
InitExtractor ==
    /\ pc = "returned"
    /\ response = "stream"
    /\ session = SessionUser
    /\ chats = {ChatRow(ChatId, SessionUser)}
    /\ messages = <<MessageRow(UserMessageId, "user", UserParts, Null)>>
    /\ streamIds = {[id |-> UuidPool[1], chatId |-> ChatId]}
    /\ uuids = Len(UuidPool)
    /\ streamId = UuidPool[1]
    /\ messageId = UuidPool[2]
    /\ textBlockId = UuidPool[3]
    /\ \E parts \in Answers :
       \E st \in {TranscodeParts(parts, LoopState(<<>>, FALSE, FALSE),
                                UuidPool[3])} :
         /\ body = BodyOf(parts)
         /\ pos = Len(body)
         /\ buffer = <<>>
         /\ textBlockStarted = st.started
         /\ out = st.events
         /\ msgParts = ApplyEvents(<<>>, st.events)
    /\ ctrl = "closed"
    /\ ragResponse = "ok"
    /\ ui = "open"
    /\ calls = <<Call("saveMessages",
                      <<MessageRow(UserMessageId, "user", UserParts, Null)>>,
                      TRUE),
                 Call("createStreamId", <<>>, TRUE),
                 Call("fetch", <<>>, TRUE)>>
    /\ rendered = {}
    /\ EmptyStore

NextExtractor ==
    \/ OnFinish
    \/ RenderFeedback
    \/ RenderMessage

SpecExtractor == InitExtractor /\ [][NextExtractor]_vars

\* ------------------------------------------- the chat and hypothesis store
\* saveChat, upsertHypothesis and saveHypotheses called in any order, each
\* statement at its own instant.
AssistantMessageId == "m2"
MissingMessageId == "m9"

Statement(fn, row, error, raised) ==
    [fn |-> fn, row |-> row, error |-> error, raised |-> raised]

\* db.insert(chat).values(row): the primary key rejects a second row with
\* the id; `fault` is any other failure of the statement.
InsertChat(rows, row, fault) ==
    IF fault THEN [rows |-> rows, error |-> "connection"]
    ELSE IF \E c \in rows : c.id = row.id
         THEN [rows |-> rows, error |-> "duplicate key"]
         ELSE [rows |-> rows \cup {row}, error |-> "none"]

\* saveChat of lib/db/queries: a duplicate key returns null, any other error
\* is thrown as a ChatSDKError.
saveChat(rows, row, fault) ==
    LET r == InsertChat(rows, row, fault) IN
    [rows |-> r.rows, error |-> r.error,
     raised |-> r.error \notin {"none", "duplicate key"}]

\* saveChat of the other copy of the queries: every error is thrown.
VariantSaveChat(rows, row, fault) ==
    LET r == InsertChat(rows, row, fault) IN
    [rows |-> r.rows, error |-> r.error, raised |-> r.error # "none"]

CallSaveChat ==
    /\ \E userId \in {SessionUser, OtherUser}, fault \in BOOLEAN :
       \E r \in {saveChat(chats, ChatRow(ChatId, userId), fault)} :
         /\ chats' = r.rows
         /\ statement' = Statement("saveChat",
                                             ChatRow(ChatId, userId),
                                             r.error, r.raised)
    /\ UNCHANGED <<pc, response, session, messages, streamIds, idVars,
                   streamVars, ui, calls, rendered, hypothesisRows,
                   feedbackRows, messageFeedbackRows, batch,
                   requests>>

CallVariantSaveChat ==
    /\ \E userId \in {SessionUser, OtherUser}, fault \in BOOLEAN :
       \E r \in {VariantSaveChat(chats, ChatRow(ChatId, userId), fault)} :
         /\ chats' = r.rows
         /\ statement' = Statement("saveChat",
                                             ChatRow(ChatId, userId),
                                             r.error, r.raised)
    /\ UNCHANGED <<pc, response, session, messages, streamIds, idVars,
                   streamVars, ui, calls, rendered, hypothesisRows,
                   feedbackRows, messageFeedbackRows, batch,
                   requests>>

HypothesisRow(id, msgId, title, description, orderIndex) ==
    [id |-> id, messageId |-> msgId, title |-> title,
     description |-> description, orderIndex |-> orderIndex]

\* An insert that has no ON CONFLICT clause.
InsertHypothesisOnly(rows, row, fault) ==
    IF fault THEN [rows |-> rows, error |-> "connection"]
    ELSE IF \E r \in rows : r.id = row.id
         THEN [rows |-> rows, error |-> "duplicate key"]
         ELSE [rows |-> rows \cup {row}, error |-> "none"]

\* db.insert(hypothesis).values(row).onConflictDoUpdate({ target:
\* hypothesis.id, set: { title, description, orderIndex } }): one statement.
InsertOnConflictDoUpdate(rows, row, fault) ==
    IF fault THEN [rows |-> rows, error |-> "connection"]
    ELSE IF \E r \in rows : r.id = row.id
         THEN [rows |-> {IF r.id = row.id
                         THEN [r EXCEPT !.title = row.title,
                                        !.description = row.description,
                                        !.orderIndex = row.orderIndex]
                         ELSE r : r \in rows},
               error |-> "none"]
         ELSE [rows |-> rows \cup {row}, error |-> "none"]

\* The hypotheses the calls are made with: two ids, two contents.
HypothesisIds ==
    {HypothesisId(ChatId, AssistantMessageId, <<DigitChars[k]>>) : k \in 1..2}

Versions ==
    {[title |-> <<"Alpha">>, description |-> <<"first">>, orderIndex |-> 1],
     [title |-> <<"Beta">>, description |-> <<"second">>, orderIndex |-> 2]}

HypothesisItems ==
    {[id |-> id, title |-> v.title, description |-> v.description,
      orderIndex |-> v.orderIndex] : id \in HypothesisIds, v \in Versions}

\* upsertHypothesis: any error is thrown as a ChatSDKError.
UpsertHypothesis ==
    /\ \E h \in HypothesisItems, fault \in BOOLEAN :
       \E row \in {HypothesisRow(h.id, AssistantMessageId, h.title,
                                 h.description, h.orderIndex)} :
       \E r \in {InsertOnConflictDoUpdate(hypothesisRows, row, fault)} :
         /\ hypothesisRows' = r.rows
         /\ statement' = Statement("upsertHypothesis", row, r.error,
                                             r.error # "none")
    /\ UNCHANGED <<pc, response, session, dbVars, idVars, streamVars, ui,
                   calls, rendered, feedbackRows, messageFeedbackRows, batch,
                   requests>>

\* The lists saveHypotheses is called with: the first content under the
\* first id, the second under the second, in any order and number.
BatchItems ==
    {h \in HypothesisItems :
       (h.id[4] = <<DigitChars[1]>>) <=> (h.orderIndex = 1)}

BatchLists == UNION {[1..n -> BatchItems] : n \in 0..MaxBatch}

\* A saveHypotheses that gives up at the first hypothesis that fails.
SaveHypothesesLoopGivesUp(b, error) ==
    IF error # "none"
    THEN [b EXCEPT !.failed = b.failed \cup {b.next}, !.state = "thrown"]
    ELSE [b EXCEPT !.saved = Append(b.saved, b.list[b.next]),
                   !.next = b.next + 1,
                   !.state = IF b.next = Len(b.list) THEN "returned"
                             ELSE "running"]

\* One turn of the loop of saveHypotheses: the catch inside the loop logs
\* the error and goes on with the next hypothesis.
SaveHypothesesLoop(b, error) ==
    [b EXCEPT !.saved = IF error = "none" THEN Append(b.saved, b.list[b.next])
                        ELSE b.saved,
              !.failed = IF error = "none" THEN b.failed
                         ELSE b.failed \cup {b.next},
              !.next = b.next + 1,
              !.state = IF b.next = Len(b.list) THEN "returned"
                        ELSE "running"]

\* saveHypotheses up to its loop: the message is looked up and must exist
\* (otherwise, and on any error of the select, a ChatSDKError is thrown);
\* an empty list returns at once.
SaveHypothesesOf(msgId, list, fault) ==
    /\ batch.state # "running"
    /\ IF fault \/ ~\E i \in 1..Len(messages) : messages[i].id = msgId
       THEN /\ batch' = [state |-> "thrown", messageId |-> msgId,
                         list |-> list, next |-> 1, saved |-> <<>>,
                         failed |-> {}]
            /\ statement' =
                   Statement("saveHypotheses", msgId,
                             IF fault THEN "connection" ELSE "not found",
                             TRUE)
       ELSE /\ batch' = [state |-> IF list = <<>> THEN "returned"
                                   ELSE "running",
                         messageId |-> msgId, list |-> list, next |-> 1,
                         saved |-> <<>>, failed |-> {}]
            /\ UNCHANGED statement

\* POST /api/message/[messageId]/hypotheses with a list that passes its
\* validation: saveHypotheses is called, a throw answers 500.
PostHypotheses ==
    /\ \E msgId \in {AssistantMessageId, MissingMessageId},
          list \in BatchLists, fault \in BOOLEAN :
         SaveHypothesesOf(msgId, list, fault)
    /\ UNCHANGED <<pc, response, session, dbVars, idVars, streamVars, ui,
                   calls, rendered, hypothesisRows, feedbackRows,
                   messageFeedbackRows,
                   requests>>

\* The upsert of the next hypothesis of the call under way.
SaveHypothesesUpsert ==
    /\ batch.state = "running"
    /\ \E fault \in BOOLEAN :
       \E row \in {LET h == batch.list[batch.next] IN
                   HypothesisRow(h.id, batch.messageId, h.title,
                                 h.description, h.orderIndex)} :
       \E r \in {InsertOnConflictDoUpdate(hypothesisRows, row, fault)} :
         /\ hypothesisRows' = r.rows
         /\ batch' = SaveHypothesesLoop(batch, r.error)
         /\ statement' = Statement("upsertHypothesis", row, r.error,
                                             FALSE)
    /\ UNCHANGED <<pc, response, session, dbVars, idVars, streamVars, ui,
                   calls, rendered, feedbackRows, messageFeedbackRows,
                   requests>>

\* The assistant message the hypotheses belong to: the answer with blocks
\* 1 and 2, saved as onFinish saves it.
StoredAnswer ==
    [id |-> AssistantMessageId, role |-> "assistant",
     parts |-> <<TextPart(Marked(Concat(
                   [k \in 1..2 |->
                      Block(NumberedBlock(k,
                         [title |-> <<"Alpha">>,
                          description |-> <<"first">>]))])))>>]

InitStore ==
    /\ pc = "returned"
    /\ response = "stream"
    /\ session = SessionUser
    /\ chats \in {{}, {ChatRow(ChatId, SessionUser)}}
    /\ messages = <<MessageRow(UserMessageId, "user", UserParts, Null),
                    AssistantRow(StoredAnswer)>>
    /\ streamIds = {}
    /\ uuids = 0
    /\ streamId = ""
    /\ messageId = AssistantMessageId
    /\ body = <<>>
    /\ pos = 0
    /\ buffer = <<>>
    /\ textBlockStarted = FALSE
    /\ textBlockId = ""
    /\ out = <<>>
    /\ ctrl = "closed"
    /\ msgParts = StoredAnswer.parts
    /\ ragResponse = "ok"
    /\ ui = "closed"
    /\ calls = <<>>
    /\ rendered = {}
    /\ EmptyStore

NextStore ==
    \/ CallSaveChat
    \/ CallVariantSaveChat
    \/ UpsertHypothesis
    \/ PostHypotheses
    \/ SaveHypothesesUpsert

SpecStore == InitStore /\ [][NextStore]_vars

\* ------------------------------------------------------------ saveMessages
\* saveMessages called with batches of rows: ids that are in the table and
\* ids that are not, no id twice in a batch.
BatchMessageIds == {UserMessageId, AssistantMessageId, "m3", "m4"}

MessageBatches ==
    {b \in UNION {[1..n -> BatchMessageIds] : n \in 1..MaxBatch} :
       \A i \in DOMAIN b, j \in DOMAIN b : b[i] = b[j] => i = j}

\* saveMessages({ messages }): one insert of all rows; a duplicate key is
\* logged and null is returned, any other error is thrown as ChatSDKError.
saveMessages(rows, fault) ==
    IF fault
    THEN [rows |-> messages, error |-> "connection", raised |-> TRUE]
    ELSE IF InsertMessages(rows) = messages
         THEN [rows |-> messages, error |-> "duplicate key", raised |-> FALSE]
         ELSE [rows |-> InsertMessages(rows), error |-> "none",
               raised |-> FALSE]

CallSaveMessages ==
    /\ \E b \in MessageBatches, fault \in BOOLEAN :
       \E rows \in {[i \in DOMAIN b |->
                       MessageRow(b[i], "assistant", UserParts, Null)]} :
       \E r \in {saveMessages(rows, fault)} :
         /\ messages' = r.rows
         /\ statement' = Statement("saveMessages", rows, r.error, r.raised)
    /\ UNCHANGED <<pc, response, session, chats, streamIds, idVars,
                   streamVars, ui, calls, rendered, hypothesisRows,
                   feedbackRows, messageFeedbackRows, batch, requests>>

SpecMessages == InitStore /\ [][CallSaveMessages]_vars

\* ------------------------------------------------------------ the feedback
\* The requests that write feedback and hypotheses once the turn is over;
\* `calls` holds the requests answered 200 and the batch saves, in order.
UiMessageId == "ui-1"       \* the id the client has for the message

DbNull == [c |-> "null", v |-> ""]

\* What a feedback form sends: the rating, and the comment and the
\* category when the user gave them.
Submissions ==
    {[rating |-> JString("helpful"), feedbackText |-> JString("good"),
      category |-> JString("quality")],
     [rating |-> JString("not_helpful"), feedbackText |-> JString("vague"),
      category |-> Undefined],
     [rating |-> JString("needs_improvement"), feedbackText |-> Undefined,
      category |-> Undefined]}

Request(fn, subject, userId, values) ==
    [fn |-> fn, subject |-> subject, userId |-> userId, values |-> values]

\* .update(table).set(values): a key whose value is undefined is left out
\* of the SET list, the column keeps its value.
SetColumns(row, values) ==
    [k \in DOMAIN row |->
       IF k \in DOMAIN values /\ values[k] # Undefined THEN values[k]
       ELSE row[k]]

\* .insert(table).values(values): a column whose value is undefined gets
\* its default, NULL.
InsertValues(values) ==
    [k \in DOMAIN values |->
       IF values[k] = Undefined THEN DbNull ELSE values[k]]

\* feedbackText || undefined
OrUndefined(v) == IF v \in {Undefined, DbNull, JString("")} THEN Undefined ELSE v

saveIndividualHypothesisFeedback(rows, hypothesisId, userId, values) ==
    LET existingFeedback ==
            {r \in rows : r.hypothesisId = hypothesisId /\ r.userId = userId}
    IN IF existingFeedback # {}
       THEN {IF r \in existingFeedback THEN SetColumns(r, values) ELSE r :
               r \in rows}
       ELSE rows \cup {[hypothesisId |-> hypothesisId, userId |-> userId]
                         @@ InsertValues(values)}

\* hypothesisRatings, the fourth value of the row, is left out.
saveHypothesisFeedback(rows, msgId, userId, values) ==
    LET existingFeedback ==
            {r \in rows : r.messageId = msgId /\ r.userId = userId}
    IN IF existingFeedback # {}
       THEN {IF r \in existingFeedback THEN SetColumns(r, values) ELSE r :
               r \in rows}
       ELSE rows \cup {[messageId |-> msgId, userId |-> userId]
                         @@ InsertValues(values)}

\* Number.parseInt(hypothesisNumStr, 10) on a string of digits
RECURSIVE ParseInt(_)
ParseInt(digits) ==
    IF digits = <<>> THEN 0
    ELSE 10 * ParseInt(Front(digits))
           + (CHOOSE d \in 1..Len(DigitChars) : DigitChars[d] = Last(digits))

\* getMessageById({ id })
getMessageById(id) == SelectSeq(messages, LAMBDA m : m.id = id)

\* The list in message.hypotheses, [] when the column is null.
HypothesesOf(m) == IF m.hypotheses.isNull THEN <<>> ELSE m.hypotheses.list

\* The message of a per-hypothesis feedback: the one with the id, else the
\* last assistant message of the chat that has hypotheses.
FeedbackMessage(chatId, msgId) ==
    IF getMessageById(msgId) # <<>> THEN getMessageById(msgId)
    ELSE LET assistantMessages ==
                 SelectSeq(messages,
                           LAMBDA m : /\ m.chatId = chatId
                                      /\ m.role = "assistant"
                                      /\ Len(HypothesesOf(m)) > 0)
         IN IF assistantMessages # <<>> THEN <<Last(assistantMessages)>>
            ELSE <<>>

\* hypotheses.find(h => h.id === hypothesisId), else the one at the place
\* of the number.
FindHypothesis(hypotheses, hypothesisId, hypothesisNumber) ==
    LET exact == SelectSeq(hypotheses, LAMBDA h : h.id = hypothesisId)
    IN IF exact # <<>> THEN <<Head(exact)>>
       ELSE IF Len(hypotheses) >= hypothesisNumber /\ hypothesisNumber >= 1
            THEN <<hypotheses[hypothesisNumber]>>
            ELSE <<>>

\* POST /api/hypothesis/[hypothesisId]/feedback with a rating and a
\* category that pass their validation, for the id the client made from
\* its chat id, its message id and the number of the hypothesis.
PostHypothesisFeedback ==
    /\ Len(calls) < MaxRequests
    /\ \E number \in {<<DigitChars[k]>> : k \in 1..3},
          msgId \in {AssistantMessageId, UiMessageId},
          sent \in Submissions, fault \in BOOLEAN :
       \E hypothesisId \in {HypothesisId(ChatId, msgId, number)} :
       \E found \in {FeedbackMessage(hypothesisId[2], hypothesisId[3])} :
       \E hypothesis \in
            {IF found = <<>> THEN <<>>
             ELSE FindHypothesis(HypothesesOf(found[1]), hypothesisId,
                                 ParseInt(hypothesisId[4]))} :
         IF hypothesis = <<>>
         THEN /\ statement' = Statement("POST feedback", hypothesisId,
                                        "not found", FALSE)
              /\ UNCHANGED <<hypothesisRows, feedbackRows, calls>>
         ELSE \E row \in {HypothesisRow(hypothesis[1].id, found[1].id,
                                        hypothesis[1].title,
                                        hypothesis[1].description,
                                        ParseInt(hypothesisId[4]))} :
              \E r \in {InsertOnConflictDoUpdate(hypothesisRows, row,
                                                 fault)} :
                /\ hypothesisRows' = r.rows
                /\ statement' = Statement("upsertHypothesis", row, r.error,
                                          r.error # "none")
                /\ IF r.error # "none"
                   THEN UNCHANGED <<feedbackRows, calls>>
                   ELSE /\ feedbackRows' =
                             saveIndividualHypothesisFeedback(
                               feedbackRows, hypothesis[1].id, session,
                               [rating |-> sent.rating,
                                feedbackText |->
                                    OrUndefined(sent.feedbackText),
                                feedbackCategory |->
                                    OrUndefined(sent.category)])
                        /\ calls' = Append(calls,
                               Request("hypothesis", hypothesis[1].id,
                                       session, sent))
    /\ UNCHANGED <<pc, response, session, dbVars, idVars, streamVars, ui,
                   rendered, messageFeedbackRows, batch,
                   requests>>

\* POST /api/hypothesis-feedback with chatId, messageId and rating: the
\* chat must exist; the feedback goes to the message with the id, else to
\* the last assistant message of the chat.
PostMessageFeedback ==
    /\ Len(calls) < MaxRequests
    /\ \E msgId \in {AssistantMessageId, UiMessageId}, sent \in Submissions :
       \E assistantMessages \in
            {SelectSeq(messages, LAMBDA m : /\ m.chatId = ChatId
                                            /\ m.role = "assistant")} :
         IF getChatById(ChatId, FALSE) = {}
            \/ (getMessageById(msgId) = <<>> /\ assistantMessages = <<>>)
         THEN /\ statement' = Statement("POST hypothesis-feedback", msgId,
                                        "not found", FALSE)
              /\ UNCHANGED <<messageFeedbackRows, calls>>
         ELSE \E actualMessageId \in
                   {IF getMessageById(msgId) # <<>> THEN msgId
                    ELSE Last(assistantMessages).id} :
                /\ messageFeedbackRows' =
                     saveHypothesisFeedback(
                       messageFeedbackRows, actualMessageId, session,
                       [rating |-> sent.rating,
                        feedbackText |-> sent.feedbackText,
                        feedbackType |-> sent.category])
                /\ calls' = Append(calls, Request("message", actualMessageId,
                                                  session, sent))
                /\ UNCHANGED statement
    /\ UNCHANGED <<pc, response, session, dbVars, idVars, streamVars, ui,
                   rendered, hypothesisRows, feedbackRows, batch,
                   requests>>

\* hypotheses.map((h, index) => ({ ...h, orderIndex: index + 1 }))
WithOrder(hypotheses) ==
    [index \in 1..Len(hypotheses) |->
       [id |-> hypotheses[index].id, title |-> hypotheses[index].title,
        description |-> hypotheses[index].description,
        orderIndex |-> index]]

\* The message component renders the finished message: it extracts the
\* hypotheses and, when there are any, posts them with their order to
\* /api/message/[messageId]/hypotheses; what the request answers is logged.
SaveHypothesesToDatabase ==
    /\ Len(calls) < MaxRequests
    /\ \E now \in Instants, seed \in Seeds, fault \in BOOLEAN :
       \E hypotheses \in
            {VariantHypothesesFromMessage(ResponseMessage, now, seed)} :
         /\ Len(hypotheses) > 0
         /\ SaveHypothesesOf(ResponseMessage.id, WithOrder(hypotheses), fault)
         /\ calls' = Append(calls, Request("saveHypothesesToDatabase",
                                           ResponseMessage.id, session,
                                           WithOrder(hypotheses)))
    /\ UNCHANGED <<pc, response, session, dbVars, idVars, streamVars, ui,
                   rendered, hypothesisRows, feedbackRows,
                   messageFeedbackRows,
                   requests>>

InitFeedback ==
    /\ pc = "returned"
    /\ response = "stream"
    /\ session = SessionUser
    /\ chats = {ChatRow(ChatId, SessionUser)}
    /\ messages = <<MessageRow(UserMessageId, "user", UserParts, Null),
                    AssistantRow(StoredAnswer)>>
    /\ streamIds = {}
    /\ uuids = 0
    /\ streamId = ""
    /\ messageId = AssistantMessageId
    /\ body = <<>>
    /\ pos = 0
    /\ buffer = <<>>
    /\ textBlockStarted = FALSE
    /\ textBlockId = ""
    /\ out = <<>>
    /\ ctrl = "closed"
    /\ msgParts = StoredAnswer.parts
    /\ ragResponse = "ok"
    /\ ui = "closed"
    /\ calls = <<>>
    /\ rendered = {}
    /\ EmptyStore

NextFeedback ==
    \/ PostHypothesisFeedback
    \/ PostMessageFeedback
    \/ SaveHypothesesToDatabase
    \/ SaveHypothesesUpsert

SpecFeedback == InitFeedback /\ [][NextFeedback]_vars

\* --------------------------------- the feedback request, await by await
\* POST /api/hypothesis/[hypothesisId]/feedback of two clients of the
\* session user at once: every await of the handler is a step, and the
\* statements of the requests and a deletion of messages run in any order.
MessageExists(id) == \E i \in 1..Len(messages) : messages[i].id = id

\* db.insert(hypothesis)...onConflictDoUpdate under the foreign key of
\* Hypothesis.messageId.
UpsertUnderForeignKey(rows, row, fault) ==
    IF ~fault /\ ~MessageExists(row.messageId)
    THEN [rows |-> rows, error |-> "foreign key"]
    ELSE InsertOnConflictDoUpdate(rows, row, fault)

\* An insert of a feedback row that the table does not check against the
\* Hypothesis rows.
InsertFeedbackUnchecked(rows, row, fault) ==
    IF fault THEN [rows |-> rows, error |-> "connection"]
    ELSE IF \E r \in rows : /\ r.userId = row.userId
                            /\ r.hypothesisId = row.hypothesisId
         THEN [rows |-> rows, error |-> "duplicate key"]
         ELSE [rows |-> rows \cup {row}, error |-> "none"]

\* db.insert(individualHypothesisFeedback).values(row): the unique
\* constraint on (userId, hypothesisId) and the foreign key of hypothesisId
\* reject the row.
InsertFeedback(rows, row, fault) ==
    IF fault THEN [rows |-> rows, error |-> "connection"]
    ELSE IF \E r \in rows : /\ r.userId = row.userId
                            /\ r.hypothesisId = row.hypothesisId
         THEN [rows |-> rows, error |-> "duplicate key"]
    ELSE IF ~\E h \in hypothesisRows : h.id = row.hypothesisId
         THEN [rows |-> rows, error |-> "foreign key"]
         ELSE [rows |-> rows \cup {row}, error |-> "none"]

\* db.update(individualHypothesisFeedback).set(values).where(hypothesisId
\* and userId): the rows that match, none when the row is gone.
UpdateFeedback(rows, hypothesisId, userId, values, fault) ==
    IF fault THEN [rows |-> rows, error |-> "connection"]
    ELSE [rows |-> {IF r.hypothesisId = hypothesisId /\ r.userId = userId
                    THEN SetColumns(r, values) ELSE r : r \in rows},
          error |-> "none"]

\* getIndividualHypothesisFeedbackStats: the ratings given to the
\* hypothesis with the id, each with its count.
FeedbackStats(hypothesisId) ==
    LET of == {r \in feedbackRows : r.hypothesisId = hypothesisId} IN
    {[rating |-> x, count |-> Cardinality({r \in of : r.rating = x})] :
       x \in {r.rating : r \in of}}

\* The values the route hands to saveIndividualHypothesisFeedback.
FeedbackValues(sent) ==
    [rating |-> sent.rating,
     feedbackText |-> OrUndefined(sent.feedbackText),
     feedbackCategory |-> OrUndefined(sent.category)]

\* The request answered: 200 with the statistics, 404, or 500 with the
\* error that was caught.
Answered(q, status, error, stats) ==
    [q EXCEPT !.pc = "done", !.status = status, !.error = error,
              !.stats = stats]

\* The handler up to upsertHypothesis: the message and the hypothesis are
\* looked up; `fresh` notes whether the user had a feedback row for the
\* hypothesis when the request came in.
ReceiveFeedback ==
    /\ \E c \in Clients :
       \E number \in {<<DigitChars[k]>> : k \in 1..2},
          msgId \in {AssistantMessageId, UiMessageId},
          sent \in Submissions :
       \E url \in {HypothesisId(ChatId, msgId, number)} :
       \E found \in {FeedbackMessage(url[2], url[3])} :
       \E hypothesis \in
            {IF found = <<>> THEN <<>>
             ELSE FindHypothesis(HypothesesOf(found[1]), url,
                                 ParseInt(url[4]))} :
       \E q \in {[pc |-> "upsert", url |-> url, sent |-> sent,
                  row |-> IF hypothesis = <<>> THEN <<>>
                          ELSE HypothesisRow(hypothesis[1].id, found[1].id,
                                             hypothesis[1].title,
                                             hypothesis[1].description,
                                             ParseInt(url[4])),
                  existing |-> FALSE,
                  fresh |-> hypothesis # <<>> /\
                            ~\E r \in feedbackRows :
                                /\ r.hypothesisId = hypothesis[1].id
                                /\ r.userId = session,
                  status |-> 0, error |-> "none", stats |-> {}]} :
         /\ requests[c].pc = "idle"
         /\ requests' = [requests EXCEPT ![c] =
                           IF hypothesis = <<>>
                           THEN Answered(q, 404, "not found", {})
                           ELSE q]
    /\ UNCHANGED <<pc, response, session, dbVars, idVars, streamVars, ui,
                   calls, rendered, hypothesisRows, feedbackRows,
                   messageFeedbackRows, batch, statement>>

\* await upsertHypothesis(...): an error is thrown and answered 500.
AwaitUpsertHypothesis ==
    /\ \E c \in Clients, fault \in BOOLEAN :
       \E q \in {requests[c]} :
         /\ q.pc = "upsert"
         /\ \E r \in {UpsertUnderForeignKey(hypothesisRows, q.row, fault)} :
              /\ hypothesisRows' = r.rows
              /\ requests' = [requests EXCEPT ![c] =
                                IF r.error # "none"
                                THEN Answered(q, 500, r.error, {})
                                ELSE [q EXCEPT !.pc = "select"]]
    /\ UNCHANGED <<pc, response, session, dbVars, idVars, streamVars, ui,
                   calls, rendered, feedbackRows, messageFeedbackRows, batch,
                   statement>>

\* saveIndividualHypothesisFeedback, the select of the existing feedback.
AwaitSelectFeedback ==
    /\ \E c \in Clients, fault \in BOOLEAN :
       \E q \in {requests[c]} :
         /\ q.pc = "select"
         /\ requests' = [requests EXCEPT ![c] =
              IF fault THEN Answered(q, 500, "connection", {})
              ELSE [q EXCEPT !.pc = "write",
                             !.existing =
                                \E r \in feedbackRows :
                                   /\ r.hypothesisId = q.row.id
                                   /\ r.userId = session]]
    /\ UNCHANGED <<pc, response, session, dbVars, idVars, streamVars, ui,
                   calls, rendered, hypothesisRows, feedbackRows,
                   messageFeedbackRows, batch, statement>>

\* saveIndividualHypothesisFeedback, the update or the insert that the
\* select decided on.
AwaitWriteFeedback ==
    /\ \E c \in Clients, fault \in BOOLEAN :
       \E q \in {requests[c]} :
         /\ q.pc = "write"
         /\ \E r \in {IF q.existing
                      THEN UpdateFeedback(feedbackRows, q.row.id, session,
                                          FeedbackValues(q.sent), fault)
                      ELSE InsertFeedback(
                             feedbackRows,
                             [hypothesisId |-> q.row.id, userId |-> session]
                                 @@ InsertValues(FeedbackValues(q.sent)),
                             fault)} :
              /\ feedbackRows' = r.rows
              /\ requests' = [requests EXCEPT ![c] =
                                IF r.error # "none"
                                THEN Answered(q, 500, r.error, {})
                                ELSE [q EXCEPT !.pc = "stats"]]
    /\ UNCHANGED <<pc, response, session, dbVars, idVars, streamVars, ui,
                   calls, rendered, hypothesisRows, messageFeedbackRows,
                   batch, statement>>

\* await getIndividualHypothesisFeedbackStats({ hypothesisId }) with the
\* id of the URL, then Response.json({ feedback, stats }).
AwaitStats ==
    /\ \E c \in Clients, fault \in BOOLEAN :
       \E q \in {requests[c]} :
         /\ q.pc = "stats"
         /\ requests' = [requests EXCEPT ![c] =
              IF fault THEN Answered(q, 500, "connection", {})
              ELSE Answered(q, 200, "none", FeedbackStats(q.url))]
    /\ UNCHANGED <<pc, response, session, dbVars, idVars, streamVars, ui,
                   calls, rendered, hypothesisRows, feedbackRows,
                   messageFeedbackRows, batch, statement>>

\* db.delete(message).where(...) of deleteChatById (keep = 0) and of
\* deleteMessagesByChatIdAfterTimestamp: the Hypothesis rows of the
\* messages go with them, and the feedback rows of those hypotheses.
DeleteMessages ==
    /\ messages # <<>>
    /\ messageFeedbackRows = {}
    /\ \E keep \in 0..(Len(messages) - 1) :
       \E left \in {SubSeq(messages, 1, keep)} :
       \E hyps \in {{h \in hypothesisRows :
                       \E i \in 1..Len(left) : left[i].id = h.messageId}} :
         /\ messages' = left
         /\ hypothesisRows' = hyps
         /\ feedbackRows' = {r \in feedbackRows :
                               \E h \in hyps : h.id = r.hypothesisId}
    /\ UNCHANGED <<pc, response, session, chats, streamIds, idVars,
                   streamVars, ui, calls, rendered, messageFeedbackRows,
                   batch, statement, requests>>

NextRequests ==
    \/ ReceiveFeedback
    \/ AwaitUpsertHypothesis
    \/ AwaitSelectFeedback
    \/ AwaitWriteFeedback
    \/ AwaitStats
    \/ DeleteMessages

SpecRequests == InitFeedback /\ [][NextRequests]_vars

\* =================================================================== claims
\* The tokens reader.read() has handed over so far.
Delivered == SubSeq(body, 1, pos)

\* The transcoder's result on the delivered tokens handed over as one chunk.
OneChunk == OnChunk(<<>>, Delivered, FALSE, textBlockId)

\* C1: chunk-boundary independence.  However the delivered tokens were cut
\* into chunks, the events emitted, whether the output was closed by
\* [DONE], the text block flag and the partial frame held back are those of
\* handing the same tokens over as one chunk.
C1_ChunkBoundaryIndependence ==
    ragResponse = "ok" =>
        \E ref \in {OneChunk} :
            /\ out = ref.st.events
            /\ (ctrl = "closed") = ref.st.done
            /\ textBlockStarted = ref.st.started
            /\ buffer = ref.buffer

\* C1 witness: events were emitted and the last chunk ended between the two
\* line breaks of a frame delimiter.
C1_Witness ==
    /\ out # <<>>
    /\ Len(buffer) >= 2
    /\ buffer[1] = PREFIX
    /\ Last(buffer) = NL
    /\ pos < Len(body)
    /\ body[pos + 1] = NL

\* A step of the read loop that handed over a chunk, the chunk, and what
\* the loop then split: the complete parts are all pieces but the last.
IsReadStep == pc = "reading" /\ pos' > pos
StepChunk == SubSeq(body, pos + 1, pos')
StepBuffer == buffer \o StepChunk

TextStartEvent == Event("text-start", JString(textBlockId), Undefined)
TextEndEvent == Event("text-end", JString(textBlockId), Undefined)
TextDeltaEvent(d) == Event("text-delta", JString(textBlockId), d)
FinishEvent == Event("finish", Undefined, Undefined)

IsDoneFrame(part) == StartsWithData(part) /\ IsDone(Slice6(part))

\* The place of the first [DONE] frame among the parts, 0 without one.
DoneIndex(parts) ==
    LET idx == {k \in 1..Len(parts) : IsDoneFrame(parts[k])} IN
    IF idx = {} THEN 0 ELSE CHOOSE k \in idx : \A l \in idx : k <= l

\* The loop state after `parts`, entered with the text block flag `started`.
After(parts, started) ==
    TranscodeParts(parts, LoopState(<<>>, started, FALSE), textBlockId)

\* C2: a step that goes through a [DONE] frame emits what the frames before
\* it in the chunk emit, then text-end if the text block is open at that
\* point, then finish, and closes the output; once the output is closed no
\* event is emitted any more.
C2_DoneTerminates ==
    [][/\ IsReadStep =>
            \E joined \in {StepBuffer} :
            \E parts \in {Front(Split(joined))} :
            \E k \in {DoneIndex(parts)} :
               k > 0 =>
                  \E head \in {SubSeq(parts, 1, k - 1)} :
                  \E pre \in {After(head, textBlockStarted)} :
                     /\ out' = out \o pre.events
                                   \o (IF pre.started
                                       THEN <<TextEndEvent>> ELSE <<>>)
                                   \o <<FinishEvent>>
                     /\ ctrl' = "closed"
       /\ (ctrl = "closed" => out' = out /\ ctrl' = "closed")]_vars

\* C2 witness: the output was closed by [DONE] while the text block was
\* open (text-end, finish are the last events) and tokens were still to come.
C2_Witness ==
    /\ ctrl = "closed"
    /\ textBlockStarted
    /\ Len(out) >= 3
    /\ out[Len(out) - 1].type = "text-end"
    /\ Last(out).type = "finish"
    /\ pos < Len(body)

\* C3: when the backend body ends or the read fails, the output is closed
\* or errored: start() never returns with the controller still open.
C3_OutputTerminates ==
    pc = "returned" => ctrl \in {"closed", "errored"}

\* A part that is a data frame carrying a JSON object, and the object.
IsJsonFrame(part) ==
    /\ StartsWithData(part)
    /\ ~IsDone(Slice6(part))
    /\ StartsWithBrace(Slice6(part))
    /\ ParsesAsJson(Slice6(part))

FrameJson(part) == JsonParse(Slice6(part))

IsFrameOfType(part, type) ==
    IsJsonFrame(part) /\ FrameJson(part).type = JString(type)

IsStringDeltaFrame(part) ==
    IsFrameOfType(part, "text-delta") /\ FrameJson(part).delta.c = "string"

\* The string deltas of the backend text-delta frames among the parts.
RECURSIVE FrameDeltas(_)
FrameDeltas(parts) ==
    IF parts = <<>> THEN <<>>
    ELSE (IF IsStringDeltaFrame(Head(parts))
          THEN <<FrameJson(Head(parts)).delta.v>> ELSE <<>>)
         \o FrameDeltas(Tail(parts))

\* The delta payloads of the emitted text-delta events.
RECURSIVE EmittedDeltas(_)
EmittedDeltas(events) ==
    IF events = <<>> THEN <<>>
    ELSE (IF Head(events).type = "text-delta"
          THEN <<Head(events).delta.v>> ELSE <<>>)
         \o EmittedDeltas(Tail(events))

\* The text of the response message: its text parts, in order.
RECURSIVE TextOf(_)
TextOf(parts) ==
    IF parts = <<>> THEN <<>>
    ELSE (IF Head(parts).type = "text" THEN Head(parts).text ELSE <<>>)
         \o TextOf(Tail(parts))

\* The complete parts of the delivered tokens.
DeliveredParts == Front(Split(Delivered))

\* C4: once [DONE] has closed the output, the deltas of the emitted
\* text-delta events, in order, and the accumulated assistant text are the
\* string deltas of the backend text-delta frames received before [DONE],
\* in order.
C4_DeltasPreserved ==
    ctrl = "closed" =>
        \E parts \in {DeliveredParts} :
        \E k \in {DoneIndex(parts)} :
            /\ k > 0
            /\ \E want \in {FrameDeltas(SubSeq(parts, 1, k - 1))} :
                  /\ EmittedDeltas(out) = want
                  /\ TextOf(msgParts) = want

\* C4 witness: deltas "Hello", " world", then [DONE]: the text is
\* "Hello world".
C4_Witness ==
    /\ ctrl = "closed"
    /\ EmittedDeltas(out) = <<"Hello", " world">>
    /\ TextOf(msgParts) = <<"Hello", " world">>

\* C5: lazy open.  A text-delta frame with a string delta that is processed
\* while the text block is closed yields text-start immediately followed by
\* the text-delta; a text-start or text-delta frame processed while the
\* block is open adds no text-start.
C5_LazyOpen ==
    [][IsReadStep =>
          \E joined \in {StepBuffer} :
          \E parts \in {Front(Split(joined))} :
          Len(parts) = 1 =>
          \E part \in {parts[1]} :
             /\ (IsStringDeltaFrame(part) /\ ~textBlockStarted) =>
                   /\ out' = out \o <<TextStartEvent,
                                      TextDeltaEvent(FrameJson(part).delta)>>
                   /\ textBlockStarted'
             /\ ((IsFrameOfType(part, "text-start")
                    \/ IsFrameOfType(part, "text-delta")) /\ textBlockStarted) =>
                   /\ Len(out') >= Len(out)
                   /\ \A i \in (Len(out) + 1)..Len(out') :
                         out'[i].type # "text-start"
                   /\ textBlockStarted']_vars

\* C5 witness: the only frame received is a text-delta with a string delta,
\* and text-start, text-delta were emitted.
C5_Witness ==
    /\ Len(DeliveredParts) = 1
    /\ IsStringDeltaFrame(DeliveredParts[1])
    /\ Len(out) = 2
    /\ out[1].type = "text-start"
    /\ out[2].type = "text-delta"

TextTypes == {"text-start", "text-delta", "text-end"}
ReasoningTypes == {"reasoning-start", "reasoning-delta", "reasoning-end"}

\* Every text event carries the block id, and every text-delta lies in an
\* open block: the nearest text-start or text-end before it is a text-start.
TextEventsUnderBlockId(events, id) ==
    /\ \A i \in 1..Len(events) :
          events[i].type \in TextTypes => events[i].id = JString(id)
    /\ \A j \in 1..Len(events) :
          events[j].type = "text-delta" =>
             \E i \in 1..(j - 1) :
                /\ events[i].type = "text-start"
                /\ \A m \in (i + 1)..(j - 1) : events[m].type # "text-end"

\* C6: the block id is generated (it is one of generateUUID's values, none
\* of the backend's ids), it does not change while the body is read, every
\* text-start, text-delta and text-end carries it, and a text-delta after a
\* text-end lies in a block reopened by a new text-start under that id.
C6_StableBlockId ==
    [][/\ pc = "reading" => textBlockId' = textBlockId
       /\ ragResponse' = "ok" =>
             \E id \in {textBlockId'} :
             \E sent \in {body'} :
             \E events \in {out'} :
                /\ \E i \in 1..Len(UuidPool) : id = UuidPool[i]
                /\ \A i \in 1..Len(sent) : sent[i].c = "id" => sent[i].v # id
                /\ TextEventsUnderBlockId(events, id)]_vars

\* C6 witness: a text-end, then a new text-start and a text-delta, all under
\* the same id, the backend frames carrying an id of their own.
C6_Witness ==
    \E i \in 1..Len(out) :
        /\ out[i].type = "text-end"
        /\ i + 2 <= Len(out)
        /\ out[i + 1].type = "text-start"
        /\ out[i + 2].type = "text-delta"
        /\ out[i + 2].id = out[i].id
        /\ \E k \in 1..pos : body[k] = ID("b1")

\* The place of the first frame of the type among the parts, 0 without one.
FirstOfType(parts, type) ==
    LET idx == {k \in 1..Len(parts) : IsFrameOfType(parts[k], type)} IN
    IF idx = {} THEN 0 ELSE CHOOSE k \in idx : \A l \in idx : k <= l

\* C7: a backend finish frame is forwarded as a finish event and ends
\* nothing: the frames after it in the chunk are transcoded as after any
\* other frame, and the output is closed only if one of them is [DONE].
C7_FinishPassesThrough ==
    [][IsReadStep =>
          \E joined \in {StepBuffer} :
          \E parts \in {Front(Split(joined))} :
          \E k \in {FirstOfType(parts, "finish")} :
          \E head \in {SubSeq(parts, 1, k - 1)} :
          \E tail \in {SubSeq(parts, k + 1, Len(parts))} :
          (k > 0 /\ DoneIndex(head) = 0) =>
             \E pre \in {After(head, textBlockStarted)} :
             \E post \in {After(tail, pre.started)} :
                /\ out' = out \o pre.events \o <<FinishEvent>> \o post.events
                /\ textBlockStarted' = post.started
                /\ (ctrl' = "closed") = post.done
                /\ ctrl' \in {"open", "closed"}
                /\ (pc' = "reading") = ~post.done]_vars

\* C7 witness: a finish event, a text-delta after it, and the output closed
\* by [DONE].
C7_Witness ==
    /\ ctrl = "closed"
    /\ \E i \in 1..Len(out) : \E j \in (i + 1)..Len(out) :
          out[i].type = "finish" /\ out[j].type = "text-delta"

\* A data frame whose payload is neither the sentinel nor valid JSON.
IsMalformedFrame(part) ==
    /\ StartsWithData(part)
    /\ ~IsDone(Slice6(part))
    /\ ~ParsesAsJson(Slice6(part))

\* C8: malformed frames leave no trace.  The events emitted, the text block
\* flag, whether the output is closed and the partial frame held back are
\* those of the same parts with the malformed frames taken out, and the
\* output is never errored by a frame.
C8_MalformedFrameDropped ==
    ragResponse = "ok" =>
        \E kept \in {SelectSeq(DeliveredParts,
                               LAMBDA p : ~IsMalformedFrame(p))} :
        \E ref \in {After(kept, FALSE)} :
            /\ out = ref.events
            /\ textBlockStarted = ref.started
            /\ (ctrl = "closed") = ref.done
            /\ ctrl \in {"open", "closed"}
            /\ buffer = Last(Split(Delivered))

\* C8 witness: a malformed frame was received, a text-delta frame after it,
\* and the delta of that frame is the last event.
C8_Witness ==
    /\ \E k \in 1..Len(DeliveredParts) :
          /\ IsMalformedFrame(DeliveredParts[k])
          /\ k < Len(DeliveredParts)
          /\ IsStringDeltaFrame(Last(DeliveredParts))
    /\ out # <<>>
    /\ Last(out).type = "text-delta"
    /\ ctrl = "open"

IsReasoningFrame(part) ==
    \E t \in ReasoningTypes : IsFrameOfType(part, t)

\* The deltas the backend sends on the reasoning channel.
ReasoningDeltas ==
    {FrameJson(p).delta.v : p \in {q \in Menu : IsFrameOfType(q, "reasoning-delta")}}

\* C9: a reasoning frame yields one event of its type with the backend's id
\* (and delta), and changes neither the text block flag nor the response
\* text nor the state of the output; no reasoning event carries the text
\* block id, and no reasoning delta is in a text-delta event or in the
\* accumulated text.
C9_ReasoningPassesThrough ==
    [][/\ IsReadStep =>
            \E joined \in {StepBuffer} :
            \E parts \in {Front(Split(joined))} :
            (Len(parts) = 1 /\ IsReasoningFrame(parts[1])) =>
            \E json \in {FrameJson(parts[1])} :
               /\ out' = out \o <<Event(json.type.v, json.id,
                                        IF json.type.v = "reasoning-delta"
                                        THEN json.delta ELSE Undefined)>>
               /\ textBlockStarted' = textBlockStarted
               /\ msgParts' = msgParts
               /\ ctrl' = ctrl
       /\ \E events \in {out'} :
          \E id \in {textBlockId'} :
          \E message \in {msgParts'} :
             /\ \A i \in 1..Len(events) :
                   /\ events[i].type \in ReasoningTypes =>
                         events[i].id # JString(id)
                   /\ events[i].type = "text-delta" =>
                         events[i].delta.v \notin ReasoningDeltas
             /\ \A i \in 1..Len(message) :
                \A j \in 1..Len(message[i].text) :
                   message[i].text[j] \notin ReasoningDeltas]_vars

\* C9 witness: a reasoning-delta keyed by the backend's id was emitted
\* right after a text-delta, and the text block is still open.
C9_Witness ==
    /\ Len(out) >= 2
    /\ Last(out) = Event("reasoning-delta", JString("r1"), JString("think"))
    /\ out[Len(out) - 1].type = "text-delta"
    /\ textBlockStarted
    /\ TextOf(msgParts) # <<>>

BackendUnavailable == ragResponse \in {"throws", "not-ok", "no-body"}

\* C10: when the fetch throws, or answers with a status that is not ok or
\* without a body, no event was ever emitted and no assistant message is
\* saved: the message table holds what was written before the stream was
\* opened.
C10_NothingSavedWhenUnavailable ==
    BackendUnavailable =>
        /\ out = <<>>
        /\ \A i \in 1..Len(messages) : messages[i].role # "assistant"

\* ------------------------------------------------ the end-of-stream save
IsAssistantSave(c) ==
    /\ c.fn = "saveMessages"
    /\ \E i \in 1..Len(c.rows) : c.rows[i].role = "assistant"

\* The saveMessages calls made for assistant messages, and the assistant
\* rows of the message table.
AssistantSaves(log) == SelectSeq(log, IsAssistantSave)
AssistantRows == SelectSeq(messages, LAMBDA m : m.role = "assistant")

UserRow == MessageRow(UserMessageId, "user", UserParts, Null)

\* The backend connection failed while the body was being read.
Interrupted == ragResponse = "ok" /\ ctrl = "errored"

\* C11: when reader.read() fails after a text-delta was forwarded, the
\* end-of-stream save can run, and once it has run saveMessages was called
\* exactly once with one assistant row, under the id of the response
\* message, whose text is every delta forwarded before the failure; the row
\* is in the message table unless the insert threw.
C11_InterruptedStillSaved ==
    (Interrupted /\ TextOf(msgParts) # <<>>) =>
        /\ ui = "open" => ENABLED OnFinish
        /\ ui = "closed" =>
              \E saves \in {AssistantSaves(calls)} :
                 /\ Len(saves) = 1
                 /\ Len(saves[1].rows) = 1
                 /\ saves[1].rows[1].id = messageId
                 /\ saves[1].rows[1].role = "assistant"
                 /\ TextOf(saves[1].rows[1].parts) = EmittedDeltas(out)
                 /\ saves[1].ok => AssistantRows = saves[1].rows

\* C11 witness: "Hello" was forwarded, the read failed, and the row with
\* that text is in the table.
C11_Witness ==
    /\ Interrupted
    /\ ui = "closed"
    /\ EmittedDeltas(out) = <<"Hello">>
    /\ Len(AssistantRows) = 1
    /\ TextOf(AssistantRows[1].parts) = <<"Hello">>

C13_BackendAfterWrites ==
    /\ (ragResponse # "none") = (\E i \in 1..Len(calls) : calls[i].fn = "fetch")
    /\ \A i \in 1..Len(calls) :
          calls[i].fn = "fetch" =>
             /\ \E j \in 1..(i - 1) : \E k \in (j + 1)..(i - 1) :
                   /\ calls[j] = Call("saveMessages", <<UserRow>>, TRUE)
                   /\ calls[k] = Call("createStreamId", <<>>, TRUE)
                   /\ \A c \in 1..(i - 1) : calls[c].fn = "saveChat" => c < j
             /\ \A j \in 1..(i - 1) : ~IsAssistantSave(calls[j]) => calls[j].ok
             /\ \E m \in 1..Len(messages) : messages[m] = UserRow
             /\ [id |-> streamId, chatId |-> ChatId] \in streamIds
             /\ \E c \in chats : c.id = ChatId

\* C13 witness: chat, user message and stream row were written, in that
\* order, and the backend has answered.
C13_Witness ==
    /\ Len(calls) >= 4
    /\ calls[1].fn = "saveChat"
    /\ calls[2].fn = "saveMessages"
    /\ calls[3].fn = "createStreamId"
    /\ calls[4].fn = "fetch"
    /\ ragResponse = "ok"

Rejected == {"bad_request:api", "unauthorized:chat", "forbidden:chat"}

\* C15: a request answered with BadRequest, Unauthorized or Forbidden has
\* made no storage write and no backend request and opened no stream, the
\* message and stream tables are empty, and Forbidden is answered only for
\* a chat that exists under another owner.
C15_RejectedBeforeAnyWrite ==
    response \in Rejected =>
        /\ calls = <<>>
        /\ messages = <<>>
        /\ streamIds = {}
        /\ ragResponse = "none"
        /\ ui = "none"
        /\ response = "forbidden:chat" =>
              \E c \in chats : c.id = ChatId /\ c.userId # session

\* C15 witness: the chat belongs to another user and the request was
\* answered with Forbidden.
C15_Witness ==
    /\ response = "forbidden:chat"
    /\ chats = {ChatRow(ChatId, OtherUser)}
    /\ session = SessionUser

\* C16: when the client has disconnected from a turn that had accumulated
\* text, a save for the assistant was made with that text.
C16_SavedOnCancel ==
    (ui \in {"aborted", "cancelled"} /\ TextOf(msgParts) # <<>>) =>
        \E saves \in {AssistantSaves(calls)} :
           /\ Len(saves) = 1
           /\ saves[1].rows[1].parts = msgParts

\* ------------------------------------------------ the hypothesis extractor
RenderingsBy(fn) == {e \in rendered : e.fn = fn}

\* t is s without the white space around it.
IsTrimOf(t, s) ==
    /\ \E i \in 0..Len(s), j \in 0..Len(s) :
          /\ i + Len(t) + j = Len(s)
          /\ t = SubSeq(s, i + 1, i + Len(t))
          /\ \A k \in (1..i) \cup ((Len(s) - j + 1)..Len(s)) : IsSpace(s[k])
    /\ t # <<>> => ~IsSpace(t[1]) /\ ~IsSpace(t[Len(t)])

\* C17: extractHypothesesFromText is deterministic: two extractions with
\* the same text parts, chat id and message id return the same list of
\* ids, titles and descriptions, and each id is made of the chat id, the
\* message id and the number of the block, nothing else.
C17_ExtractionDeterministic ==
    \A a \in rendered :
       /\ \A b \in rendered :
             (/\ a.fn = b.fn
              /\ a.parts = b.parts
              /\ a.chatId = b.chatId
              /\ a.messageId = b.messageId) => a.list = b.list
       /\ \A k \in 1..Len(a.list) :
             /\ Len(a.list[k].id) = 4
             /\ SubSeq(a.list[k].id, 1, 3) = <<"hyp", a.chatId, a.messageId>>
             /\ \A d \in 1..Len(a.list[k].id[4]) : IsDigit(a.list[k].id[4][d])

\* The texts of C18: one marked region of blocks numbered 1..n, each with
\* a title and a description that are not empty.
NumberedBlocks == UNION {[1..n -> Contents] : n \in 1..MaxBlocks}

RegionOf(cs) ==
    Concat([k \in 1..Len(cs) |-> Block(NumberedBlock(k, cs[k]))])

\* C18: for a text with one marked region of n blocks
\* "**Hypothesis k: title**\ndescription" numbered 1..n, title and
\* description not empty, the extractor returns n records in the order of
\* the text, record k with the id hyp_<chatId>_<messageId>_k and with the
\* title and the description of block k without the white space around them.
C18_NumberedBlocksExtracted ==
    \A e \in RenderingsBy("hypothesis-utils") :
    \A cs \in NumberedBlocks :
    \E region \in {RegionOf(cs)} :
       e.parts \in {<<TextPart(Marked(region))>>,
                    <<TextPart(MarkedWithin(region))>>} =>
          /\ Len(e.list) = Len(cs)
          /\ \A k \in 1..Len(cs) :
                /\ k <= Len(e.list)
                /\ e.list[k].id =
                     <<"hyp", e.chatId, e.messageId, <<DigitChars[k]>>>>
                /\ IsTrimOf(e.list[k].title, cs[k].title)
                /\ IsTrimOf(e.list[k].description, cs[k].description)

\* The exact marker pair: a start marker with an end marker after it.
HasMarkerPair(text) ==
    \E i \in 1..Len(text), j \in 1..Len(text) :
        i < j /\ text[i] = MarkStart /\ text[j] = MarkEnd

\* The marked region: from the first start marker that has an end marker
\* after it to the first end marker after it.
MarkedRegions(text) ==
    {SubSeq(text, i + 1, j - 1) : <<i, j>> \in
       {p \in (1..Len(text)) \X (1..Len(text)) :
          /\ p[1] < p[2]
          /\ text[p[1]] = MarkStart
          /\ text[p[2]] = MarkEnd
          /\ \A k \in 1..(p[1] - 1) : text[k] # MarkStart
          /\ \A k \in (p[1] + 1)..(p[2] - 1) : text[k] # MarkEnd}}

HasHeading(region) == \E h \in 1..Len(region) : HeadingAt(region, h).ok

\* Nothing to recognise in any text part: no marker pair, or no heading in
\* the marked region.
NothingRecognisable(parts) ==
    \A i \in 1..Len(parts) :
       parts[i].type = "text" =>
          \/ ~HasMarkerPair(parts[i].text)
          \/ \A region \in MarkedRegions(parts[i].text) : ~HasHeading(region)

\* C19: extraction returns a list, the empty one, when nothing is
\* recognisable: for a text without the exact marker pair (a marker
\* missing, in another case, or the end marker before the start marker) and
\* for a text whose marked region holds no numbered block; the message is
\* then saved without hypotheses.
C19_EmptyWhenUnrecognisable ==
    /\ \A e \in RenderingsBy("hypothesis-utils") :
          NothingRecognisable(e.parts) => e.list = <<>>
    /\ \A i \in 1..Len(AssistantRows) :
          NothingRecognisable(AssistantRows[i].parts) =>
             AssistantRows[i].hypotheses = Null

\* C19 witness: a text with the start marker and a well-formed block but
\* without the end marker was extracted to the empty list.
C19_Witness ==
    \E e \in RenderingsBy("hypothesis-utils") :
       /\ Len(e.parts) = 1
       /\ \E cs \in NumberedBlocks :
             e.parts[1].text = <<MarkStart, LineBreak>> \o RegionOf(cs)
       /\ e.list = <<>>

\* C20: the assistant row carries a hypotheses list exactly when the
\* extractor returns a non-empty list for the message; otherwise the field
\* is null, never an empty list; and the list is the result of the
\* extractor for the id of the row and the chat of the turn.
C20_HypothesesAttached ==
    \A i \in 1..Len(calls) : IsAssistantSave(calls[i]) =>
    \A k \in 1..Len(calls[i].rows) :
    \E row \in {calls[i].rows[k]} :
    \E hs \in {getHypothesesFromMessage([id |-> row.id, parts |-> row.parts],
                                        ChatId)} :
       /\ row.hypotheses # NotNull(<<>>)
       /\ row.hypotheses.isNull <=> hs = <<>>
       /\ ~row.hypotheses.isNull => row.hypotheses = NotNull(hs)
       /\ \A h \in 1..Len(row.hypotheses.list) :
             SubSeq(row.hypotheses.list[h].id, 1, 3) = <<"hyp", ChatId, row.id>>
       /\ row.id = messageId

\* C20 witness: the assistant row was saved with the two hypotheses of the
\* answer, and the rendering of the same message agrees with it.
C20_Witness ==
    /\ Len(AssistantRows) = 1
    /\ ~AssistantRows[1].hypotheses.isNull
    /\ Len(AssistantRows[1].hypotheses.list) = 2
    /\ \E e \in RenderingsBy("hypothesis-utils") :
          e.list = AssistantRows[1].hypotheses.list

\* ------------------------------------------- the chat and hypothesis store
RowsWithId(id) == {r \in hypothesisRows : r.id = id}

\* C21: however upsertHypothesis and the upserts of saveHypotheses follow
\* one another, no two Hypothesis rows share an id, the row of the id last
\* upserted holds the title, description and orderIndex of that upsert, and
\* no upsert fails with a duplicate key.
C21_UpsertLastWins ==
    /\ \A r1 \in hypothesisRows, r2 \in hypothesisRows :
          r1.id = r2.id => r1 = r2
    /\ statement.fn = "upsertHypothesis" =>
         /\ statement.error # "duplicate key"
         /\ statement.error = "none" =>
              /\ Cardinality(RowsWithId(statement.row.id)) = 1
              /\ \A r \in RowsWithId(statement.row.id) :
                   /\ r.title = statement.row.title
                   /\ r.description = statement.row.description
                   /\ r.orderIndex = statement.row.orderIndex

\* A direct upsert has just replaced the content that the first upsert of
\* the saveHypotheses call under way had stored under the same id.
C21_Witness ==
    /\ batch.state = "running"
    /\ batch.next = 2
    /\ 1 \notin batch.failed
    /\ statement.fn = "upsertHypothesis"
    /\ statement.error = "none"
    /\ statement.row.id = batch.list[1].id
    /\ statement.row.title # batch.list[1].title
    /\ C21_UpsertLastWins

\* C23: a saveChat whose id is already that of a Chat row, and whose insert
\* fails for no other reason, does not raise and leaves the Chat rows as
\* they were.
C23_SaveChatExistingIsNoOp ==
    [][(/\ statement' # statement
        /\ statement'.fn = "saveChat"
        /\ statement'.error # "connection"
        /\ \E c \in chats : c.id = statement'.row.id)
       => (~statement'.raised /\ chats' = chats)]_vars

Processed == 1..(batch.next - 1)

\* C24: whatever the hypothesis save does, the Message rows stay as onFinish
\* wrote them; and once saveHypotheses is in its loop it does not throw:
\* every hypothesis whose own upsert did not fail is stored and returned,
\* after a failed one as well.
C24_HypothesisFailureContained ==
    /\ messages = <<MessageRow(UserMessageId, "user", UserParts, Null),
                    AssistantRow(StoredAnswer)>>
    /\ batch.state = "thrown" => batch.failed = {}
    /\ batch.state \in {"running", "returned"} =>
         /\ batch.saved = [i \in 1..Len(batch.saved) |->
                             batch.list[CHOOSE k \in Processed \ batch.failed :
                                 Cardinality({j \in Processed \ batch.failed :
                                                j <= k}) = i]]
         /\ Len(batch.saved) = Cardinality(Processed \ batch.failed)
         /\ \A i \in Processed \ batch.failed :
               RowsWithId(batch.list[i].id) # {}
    /\ batch.state = "returned" => batch.next = Len(batch.list) + 1

\* saveHypotheses has returned; the upsert of its first hypothesis failed
\* and the second hypothesis, with another id, is stored.
C24_Witness ==
    /\ batch.state = "returned"
    /\ Len(batch.list) = 2
    /\ batch.failed = {1}
    /\ batch.list[1].id # batch.list[2].id
    /\ batch.saved = <<batch.list[2]>>
    /\ RowsWithId(batch.list[2].id) # {}
    /\ RowsWithId(batch.list[1].id) = {}

\* ------------------------------------------------------------ the feedback
\* The column a submitted value is expected in: NULL when it was left out.
Stored(v) == IF v = Undefined THEN DbNull ELSE v

\* The feedback rows of a user for a subject, as rating, comment, category.
FeedbackOf(q) ==
    IF q.fn = "hypothesis"
    THEN {<<r.rating, r.feedbackText, r.feedbackCategory>> :
            r \in {x \in feedbackRows : /\ x.hypothesisId = q.subject
                                        /\ x.userId = q.userId}}
    ELSE {<<r.rating, r.feedbackText, r.feedbackType>> :
            r \in {x \in messageFeedbackRows : /\ x.messageId = q.subject
                                               /\ x.userId = q.userId}}

IsFeedback(q) == q.fn \in {"hypothesis", "message"}

\* C22: when the last two requests answered are feedback of one kind by one
\* user for one subject, the table holds one row for the user and the
\* subject, with the rating of the second request, and with its comment
\* and its category where it gave them and NULL where it left them out.
C22_SecondSubmissionWins ==
    LET n == Len(calls) IN
    (/\ n >= 2
     /\ IsFeedback(calls[n])
     /\ calls[n - 1].fn = calls[n].fn
     /\ calls[n - 1].subject = calls[n].subject
     /\ calls[n - 1].userId = calls[n].userId)
    => FeedbackOf(calls[n]) = {<<calls[n].values.rating,
                                 Stored(calls[n].values.feedbackText),
                                 Stored(calls[n].values.category)>>}

RowsOfMessage(id) == {r \in hypothesisRows : r.messageId = id}

\* C25: the orderIndex values of the Hypothesis rows of a message are
\* 1..N, N the number of these rows.
C25_OrderIndexDense ==
    \A id \in {r.messageId : r \in hypothesisRows} :
       {r.orderIndex : r \in RowsOfMessage(id)}
           = 1..Cardinality(RowsOfMessage(id))

\* ------------------------------------------------ the hypothesis extractor
\* C26: every id that lib/hypothesis-utils returns is hyp, the chat id, the
\* message id and the digits of the heading, and with UUIDs for the two ids
\* it has at most the 100 characters of the id column, whatever number the
\* heading carries.
C26_IdFitsColumn ==
    \A e \in RenderingsBy("hypothesis-utils") :
    \A k \in 1..Len(e.list) :
       /\ Len(e.list[k].id) = 4
       /\ SubSeq(e.list[k].id, 1, 3) = <<"hyp", e.chatId, e.messageId>>
       /\ \A d \in 1..Len(e.list[k].id[4]) : IsDigit(e.list[k].id[4][d])
       /\ IdLength(e.list[k].id) <= IdColumnLength

\* The texts of the text parts, one after the other.
AccumulatedText(parts) ==
    Concat([i \in 1..Len(SelectSeq(parts, LAMBDA p : p.type = "text")) |->
              SelectSeq(parts, LAMBDA p : p.type = "text")[i].text])

\* C29: getHypothesesFromMessage returns what extractHypothesesFromText
\* returns on the texts of the text parts of the message put together in
\* order, also when the marked region lies across two text parts.
C29_ExtractsAccumulatedText ==
    \A e \in RenderingsBy("hypothesis-utils") :
       e.list = extractHypothesesFromText(AccumulatedText(e.parts),
                                          e.chatId, e.messageId)

\* A heading "**Hypothesis <n>:" begins at place p of s.
NumberedHeadingAt(s, p) ==
    /\ p + 3 <= Len(s)
    /\ s[p] = HeadWord
    /\ s[p + 1] = Blank
    /\ DigitRun(s, p + 2) > 0
    /\ At(s, p + 2 + DigitRun(s, p + 2)) = Colon

\* The well-formed heading lines of a region: the places where a line
\* begins with a heading the pattern accepts.
HeadingLines(region) ==
    {h \in 1..Len(region) :
       /\ HeadingAt(region, h).ok
       /\ h = 1 \/ region[h - 1] = LineBreak}

\* C30: for a message of one text part, no description returned holds a
\* heading "**Hypothesis <n>:", and there are as many records as the marked
\* region has well-formed heading lines, a heading with nothing before the
\* next heading counted.
C30_DescriptionStopsAtHeading ==
    \A e \in RenderingsBy("hypothesis-utils") :
       (Len(e.parts) = 1 /\ HasMarkerPair(e.parts[1].text)) =>
          /\ \A k \in 1..Len(e.list) :
                \A p \in 1..Len(e.list[k].description) :
                   ~NumberedHeadingAt(e.list[k].description, p)
          /\ \A region \in MarkedRegions(e.parts[1].text) :
                Len(e.list) = Cardinality(HeadingLines(region))

\* ---------------------------------------------------------- the transcoder
\* How many text blocks are open after the first i events: the text-start
\* events less the text-end events.
OpenAfter(events, i) ==
    Cardinality({k \in 1..i : events[k].type = "text-start"})
        - Cardinality({k \in 1..i : events[k].type = "text-end"})

\* C27: in the output so far, and so in each prefix of it, a text-start
\* comes only while no text block is open, a text-delta and a text-end only
\* while one is open, and an output that [DONE] has closed leaves no text
\* block open.
C27_TextWellBracketed ==
    /\ \A i \in 1..Len(out) :
          /\ out[i].type = "text-start" => OpenAfter(out, i - 1) = 0
          /\ out[i].type \in {"text-delta", "text-end"} =>
                OpenAfter(out, i - 1) = 1
    /\ ctrl = "closed" => OpenAfter(out, Len(out)) = 0

\* C27 witness: a text block was closed by a text-end of the backend and a
\* later delta opened the next one, which is open still.
C27_Witness ==
    /\ \E i \in 1..Len(out), j \in 1..Len(out) :
          /\ i < j
          /\ out[i].type = "text-end"
          /\ out[j].type = "text-start"
    /\ Last(out).type = "text-delta"
    /\ OpenAfter(out, Len(out)) = 1
    /\ C27_TextWellBracketed

\* ------------------------------------------------------- the chat's owner
\* C28: whenever a user message has been saved into the chat, the Chat row
\* of the chat belongs to the session user of the request, whatever other
\* requests did and whether or not the chat lookup failed.
C28_SavedOnlyIntoOwnChat ==
    \A i \in 1..Len(messages) :
       messages[i].role = "user" =>
          \A c \in chats : c.id = messages[i].chatId => c.userId = session

\* ------------------------------------------------ the truncated last block
\* A complete heading line "**Hypothesis <number>: <title>**\n" begins at
\* place i of s: the place after its line break, 0 when there is none.
AfterCompleteHeading(s, i) ==
    LET d == DigitRun(s, i + 2)
        n == PlainRun(s, i + d + 4)
    IN IF /\ At(s, i) = HeadWord
          /\ At(s, i + 1) = Blank
          /\ d >= 1
          /\ At(s, i + d + 2) = Colon
          /\ At(s, i + d + 3) = Blank
          /\ n >= 1
          /\ At(s, i + d + n + 4) = Bold
          /\ At(s, i + d + n + 5) = LineBreak
       THEN i + d + n + 6 ELSE 0

NumberAt(s, i) == SubSeq(s, i + 2, i + DigitRun(s, i + 2) + 1)

TitleAt(s, i) ==
    SubSeq(s, i + DigitRun(s, i + 2) + 4, AfterCompleteHeading(s, i) - 3)

\* What ends a block at place p of s: the end marker, or the line break
\* before the next numbered heading.
BlockEndsAt(s, p) ==
    /\ p >= 1 /\ p <= Len(s)
    /\ \/ s[p] = MarkEnd
       \/ s[p] = LineBreak /\ NumberedHeadingAt(s, p + 1)

\* C31: every record lib/hypothesis-utils returns is a block of a text
\* part of the message with a complete heading line, followed in that text
\* by the end marker or by the next numbered heading, and its description
\* is the text in between; a block the text stops in (before the end
\* marker, or inside the heading before its closing asterisks) gives no
\* record.
C31_TruncatedBlockDropped ==
    \A e \in RenderingsBy("hypothesis-utils") :
    \A k \in 1..Len(e.list) :
    \E a \in 1..Len(e.parts) :
       /\ e.parts[a].type = "text"
       /\ \E t \in {e.parts[a].text} :
          \E i \in 1..Len(t) :
          \E next \in {AfterCompleteHeading(t, i)} :
             /\ next # 0
             /\ e.list[k].id[4] = NumberAt(t, i)
             /\ e.list[k].title = TrimText(TitleAt(t, i))
             /\ \E p \in next..Len(t) :
                   /\ BlockEndsAt(t, p)
                   /\ e.list[k].description = TrimText(SubSeq(t, next, p - 1))

\* C31 witness: a first block, then a heading that stops inside its title,
\* then the end marker: the one record returned is the first block.
C31_Witness ==
    \E e \in RenderingsBy("hypothesis-utils") :
    \E c \in Contents :
       /\ e.parts = <<TextPart(Marked(Block(NumberedBlock(1, c))
                        \o <<HeadWord, Blank, DigitChars[2], Colon, Blank,
                             "Bet">>))>>
       /\ Len(e.list) = 1
       /\ e.list[1].id[4] = <<DigitChars[1]>>

\* ------------------------------------------------------ the ignored frames
RecognisedTypes ==
    {"reasoning-start", "reasoning-delta", "reasoning-end", "text-start",
     "text-delta", "text-end", "finish"}

\* A part the loop has no case for: it does not begin with the prefix, or
\* it carries a JSON object whose type is none of the seven or is missing.
IsIgnoredFrame(part) ==
    \/ ~StartsWithData(part)
    \/ /\ IsJsonFrame(part)
       /\ \/ FrameJson(part).type = Undefined
          \/ FrameJson(part).type.v \notin RecognisedTypes

\* C32: ignored frames are no-ops.  The events emitted, the text block
\* flag and whether the output is closed are those of the same parts with
\* the parts that do not begin with "data: " and the objects of an unknown
\* or missing type taken out; the output is never errored by them.
C32_IgnoredFramesNoOp ==
    \E kept \in {SelectSeq(DeliveredParts, LAMBDA p : ~IsIgnoredFrame(p))} :
    \E ref \in {After(kept, FALSE)} :
        /\ out = ref.events
        /\ textBlockStarted = ref.started
        /\ (ctrl = "closed") = ref.done
        /\ ctrl \in {"open", "closed"}

\* C32 witness: while the text block was open, an object of an unknown
\* type and a line without the prefix were received, then a text-delta
\* frame; the block is still open and the output holds text-start and the
\* two deltas only.
C32_Witness ==
    /\ Len(DeliveredParts) = 3
    /\ IsStringDeltaFrame(DeliveredParts[1])
    /\ IsJsonFrame(DeliveredParts[2])
    /\ FrameJson(DeliveredParts[2]).type = JString("error")
    /\ ~StartsWithData(DeliveredParts[3])
    /\ textBlockStarted
    /\ ctrl = "open"
    /\ Len(out) = 2
    /\ out[1].type = "text-start"
    /\ out[2].type = "text-delta"

\* ------------------------------------------------------- the lazy backfill
\* C33: lazy backfill.  A step that writes a per-hypothesis feedback row
\* finds the Hypothesis row of that id already written, under the id the
\* request resolved; in every state each feedback row refers to a
\* Hypothesis row that exists and each Hypothesis row to a message that
\* exists.
C33_LazyBackfill ==
    /\ [](/\ \A f \in feedbackRows :
               \E h \in hypothesisRows : h.id = f.hypothesisId
          /\ \A h \in hypothesisRows : MessageExists(h.messageId))
    /\ [][\A f \in feedbackRows' \ feedbackRows :
             /\ \E h \in hypothesisRows : h.id = f.hypothesisId
             /\ \E c \in Clients :
                   /\ requests[c].pc = "write"
                   /\ requests[c].row.id = f.hypothesisId]_vars

\* C33 witness: a request for the id the client built from its own message
\* id was answered 200; the Hypothesis row it made on the way is under the
\* id and the message of the database, and the feedback row refers to it.
C33_Witness ==
    \E c \in Clients :
       /\ requests[c].pc = "done"
       /\ requests[c].status = 200
       /\ requests[c].url[3] = UiMessageId
       /\ hypothesisRows = {requests[c].row}
       /\ requests[c].row.messageId = AssistantMessageId
       /\ \E f \in feedbackRows : f.hypothesisId = requests[c].row.id

\* ----------------------------------------------- two submissions at once
\* Two requests of the user for the same hypothesis, both come in while
\* the user has no feedback row for it, both answered, with no failure of
\* the database connection and no message deleted meanwhile.
BothSubmitted(c, d) ==
    /\ c # d
    /\ requests[c].pc = "done" /\ requests[d].pc = "done"
    /\ requests[c].fresh /\ requests[d].fresh
    /\ requests[c].row.id = requests[d].row.id
    /\ requests[c].error # "connection" /\ requests[d].error # "connection"
    /\ MessageExists(AssistantMessageId)

\* The columns a submission fills in a new row.
SubmittedValues(q) == InsertValues(FeedbackValues(q.sent))

\* C34: two concurrent feedback submissions of one user for one subject,
\* no row existing when they start, both complete without error, and the
\* table ends with exactly one row for the user and the subject, holding
\* the values of one of the two submissions.
C34_ConcurrentSubmissionsBothSucceed ==
    \A c \in Clients, d \in Clients :
       BothSubmitted(c, d) =>
          /\ requests[c].status = 200
          /\ requests[d].status = 200
          /\ \E f \in feedbackRows :
                /\ {g \in feedbackRows :
                      /\ g.hypothesisId = requests[c].row.id
                      /\ g.userId = session} = {f}
                /\ \E q \in {requests[c], requests[d]} :
                      \A k \in DOMAIN SubmittedValues(q) :
                         f[k] = SubmittedValues(q)[k]

\* ------------------------------------------------------- POST always answers
\* What POST may answer with: the stream, or the response of a ChatSDKError.
HttpResponses ==
    {"stream", "bad_request:api", "unauthorized:chat", "forbidden:chat",
     "rate_limit:chat", "bad_request:database"}

\* C35: every invocation of POST /api/chat ends with an HTTP response, the
\* event stream or an error response, whatever step failed and whatever
\* was thrown.
C35_AlwaysResponds ==
    pc \in {"responded", "fetch", "reading", "returned"} =>
        response \in HttpResponses

\* ------------------------------------------------------------ saveMessages
\* C36: when saveMessages has returned without raising, every message of
\* the batch is stored, also when one id of the batch was in the table
\* already and another was not.
C36_ReturnedMeansStored ==
    (statement.fn = "saveMessages" /\ ~statement.raised) =>
        \A i \in 1..Len(statement.row) :
           \E j \in 1..Len(messages) : messages[j].id = statement.row[i].id

C38_IdsDistinct ==
    \A e \in RenderingsBy("hypothesis-utils") :
    \A i \in 1..Len(e.list), j \in 1..Len(e.list) :
       e.list[i].id = e.list[j].id => i = j

\* ------------------------------------------------------------ the statistics
\* C39: the statistics a successful feedback POST returns count the feedback
\* it has just saved: the rating of the row of this user and the hypothesis
\* the request resolved is among them with a count of one or more, also when
\* the hypothesis was found by its number because the id of the URL matched
\* no stored id.
C39_StatsCountSaved ==
    [][\A c \in Clients :
          (requests[c].pc = "stats" /\ requests'[c].status = 200) =>
             \A r \in feedbackRows :
                (r.hypothesisId = requests[c].row.id /\ r.userId = session) =>
                   \E s \in requests'[c].stats :
                      s.rating = r.rating /\ s.count >= 1]_vars

====
